---- MODULE Spec2Model ----
(***************************************************************************)
(* Market-Analyst-Agent: the request-routing and action-planning pipeline  *)
(* of src/tools.py and src/main.py.                                        *)
(*                                                                         *)
(*   detect_entity -> plan_actions -> execute_action_plan                  *)
(*                 -> format_intelligent_response                          *)
(*                                                                         *)
(* A Python str is a sequence of Unicode code points, so that substring    *)
(* tests (`key in text`), str.lower(), str.replace() and the regular       *)
(* expression \b[A-Z]{3,5}\b are computed character by character.          *)
(***************************************************************************)
EXTENDS Integers, Sequences, FiniteSets, TLC

VARIABLES
  pc,           \* position in the pipeline
  user_input,   \* the utterance
  entity_info,  \* the EntityInfo handed to plan_actions and the formatter
  ei_from,      \* who produced entity_info: "detect_entity" or "caller"
  calls,        \* history: the collaborator calls made so far, in order
  action_plan,  \* plan_actions' return value
  i,            \* execute_action_plan: number of plan actions already taken up
  results,      \* execute_action_plan: {"actions": [...], "data": {...}}
  attempted,    \* history: the action types whose body was entered, in order
  writes,       \* history: <<key, index of the writing action>> per assignment to data
  raised,       \* an exception left the pipeline
  response,     \* format_intelligent_response's return value
  llm_reply,    \* history: what the model service answered to detect_entity
  call,         \* one call into the text-generation service and its retries
  batch,        \* one run of analyze_multiple_news
  agent,        \* one request to run_agent
  provider_call,  \* one call of a price or news provider function
  server        \* the process's clock, news_cache and its get_news requests

vars == <<pc, user_input, entity_info, ei_from, calls, action_plan, i, results,
          attempted, writes, raised, response, llm_reply, call, batch, agent,
          provider_call, server>>

\* the variables of the pipeline
pipeline_vars == <<pc, user_input, entity_info, ei_from, calls, action_plan, i, results,
                   attempted, writes, raised, response, llm_reply>>

\* the variables of the functions that are followed on their own
other_vars == <<call, batch, agent, provider_call, server>>

\* Python's None where a str is expected (no code point is negative)
None == <<-1>>

\* no call into the text-generation service is followed
NoCall ==
  [fn |-> "none", state |-> "idle", tries |-> 0, errors |-> <<>>, content |-> None,
   exc |-> FALSE, ret |-> None]

\* no run of analyze_multiple_news is followed
NoBatch ==
  [pc |-> "none", tasks |-> <<>>, results |-> <<>>, value |-> 0, waiters |-> <<>>,
   processed_results |-> <<>>]

\* no request to run_agent is followed
NoAgent ==
  [pc |-> "none", messages |-> <<>>, user_input |-> "", invoked |-> FALSE, steps |-> 0,
   ended |-> "not yet", raised |-> FALSE, ret |-> <<>>]

\* what a provider function returns: an error payload, a price payload or a
\* list of news items
Payload(kind, items) == [kind |-> kind, items |-> items]

\* no provider call is followed
NoProviderCall ==
  [fn |-> "none", pc |-> "none", environ |-> {}, sent |-> <<>>,
   answer |-> [kind |-> "none", n |-> 0], ret |-> Payload("none", <<>>), raised |-> FALSE]

\* no get_news request is followed
NoServer ==
  [now |-> 0, news_cache |-> [data |-> <<>>, timestamp |-> 0], reqs |-> <<>>,
   writers |-> <<>>, written_at |-> 0]

\* tools.py:136-165, in dictionary (insertion) order: <<alias key, canonical symbol>>
POPULAR_TICKERS ==
  <<
    <<<<97, 112, 112, 108, 101>>, <<65, 65, 80, 76>>>>,  \* "apple": "AAPL"
    <<<<97, 97, 112, 108>>, <<65, 65, 80, 76>>>>,  \* "aapl": "AAPL"
    <<<<1103, 1073, 1083, 1086, 1082, 1086>>, <<65, 65, 80, 76>>>>,  \* "яблоко": "AAPL"
    <<<<1077, 1087, 1083>>, <<65, 65, 80, 76>>>>,  \* "епл": "AAPL"
    <<<<109, 105, 99, 114, 111, 115, 111, 102, 116>>, <<77, 83, 70, 84>>>>,  \* "microsoft": "MSFT"
    <<<<109, 115, 102, 116>>, <<77, 83, 70, 84>>>>,  \* "msft": "MSFT"
    <<<<1084, 1110, 1082, 1088, 1086, 1089, 1086, 1092, 1090>>, <<77, 83, 70, 84>>>>,  \* "мікрософт": "MSFT"
    <<<<1084, 1072, 1081, 1082, 1088, 1086, 1089, 1086, 1092, 1090>>, <<77, 83, 70, 84>>>>,  \* "майкрософт": "MSFT"
    <<<<103, 111, 111, 103, 108, 101>>, <<71, 79, 79, 71, 76>>>>,  \* "google": "GOOGL"
    <<<<103, 111, 111, 103, 108>>, <<71, 79, 79, 71, 76>>>>,  \* "googl": "GOOGL"
    <<<<1075, 1091, 1075, 1083>>, <<71, 79, 79, 71, 76>>>>,  \* "гугл": "GOOGL"
    <<<<97, 108, 112, 104, 97, 98, 101, 116>>, <<71, 79, 79, 71, 76>>>>,  \* "alphabet": "GOOGL"
    <<<<97, 109, 97, 122, 111, 110>>, <<65, 77, 90, 78>>>>,  \* "amazon": "AMZN"
    <<<<97, 109, 122, 110>>, <<65, 77, 90, 78>>>>,  \* "amzn": "AMZN"
    <<<<1072, 1084, 1072, 1079, 1086, 1085>>, <<65, 77, 90, 78>>>>,  \* "амазон": "AMZN"
    <<<<116, 101, 115, 108, 97>>, <<84, 83, 76, 65>>>>,  \* "tesla": "TSLA"
    <<<<116, 115, 108, 97>>, <<84, 83, 76, 65>>>>,  \* "tsla": "TSLA"
    <<<<1090, 1077, 1089, 1083, 1072>>, <<84, 83, 76, 65>>>>,  \* "тесла": "TSLA"
    <<<<1080, 1083, 1086, 1085, 32, 1084, 1072, 1089, 1082>>, <<84, 83, 76, 65>>>>,  \* "илон маск": "TSLA"
    <<<<110, 118, 105, 100, 105, 97>>, <<78, 86, 68, 65>>>>,  \* "nvidia": "NVDA"
    <<<<110, 118, 100, 97>>, <<78, 86, 68, 65>>>>,  \* "nvda": "NVDA"
    <<<<1085, 1074, 1110, 1076, 1110, 1072>>, <<78, 86, 68, 65>>>>,  \* "нвідіа": "NVDA"
    <<<<1085, 1074, 1080, 1076, 1110, 1072>>, <<78, 86, 68, 65>>>>,  \* "нвидіа": "NVDA"
    <<<<109, 101, 116, 97>>, <<77, 69, 84, 65>>>>,  \* "meta": "META"
    <<<<102, 97, 99, 101, 98, 111, 111, 107>>, <<77, 69, 84, 65>>>>,  \* "facebook": "META"
    <<<<1092, 1077, 1081, 1089, 1073, 1091, 1082>>, <<77, 69, 84, 65>>>>,  \* "фейсбук": "META"
    <<<<1084, 1077, 1090, 1072>>, <<77, 69, 84, 65>>>>,  \* "мета": "META"
    <<<<110, 101, 116, 102, 108, 105, 120>>, <<78, 70, 76, 88>>>>,  \* "netflix": "NFLX"
    <<<<1085, 1077, 1090, 1092, 1083, 1110, 1082, 1089>>, <<78, 70, 76, 88>>>>,  \* "нетфлікс": "NFLX"
    <<<<1085, 1077, 1090, 1092, 1083, 1080, 1082, 1089>>, <<78, 70, 76, 88>>>>,  \* "нетфликс": "NFLX"
    <<<<97, 109, 100>>, <<65, 77, 68>>>>,  \* "amd": "AMD"
    <<<<97, 100, 118, 97, 110, 99, 101, 100, 32, 109, 105, 99, 114, 111>>, <<65, 77, 68>>>>,  \* "advanced micro": "AMD"
    <<<<105, 110, 116, 101, 108>>, <<73, 78, 84, 67>>>>,  \* "intel": "INTC"
    <<<<1080, 1085, 1090, 1077, 1083>>, <<73, 78, 84, 67>>>>,  \* "интел": "INTC"
    <<<<99, 111, 105, 110, 98, 97, 115, 101>>, <<67, 79, 73, 78>>>>,  \* "coinbase": "COIN"
    <<<<1082, 1086, 1080, 1085, 1073, 1077, 1081, 1089>>, <<67, 79, 73, 78>>>>,  \* "коинбейс": "COIN"
    <<<<122, 111, 111, 109>>, <<90, 77>>>>,  \* "zoom": "ZM"
    <<<<1079, 1091, 1084>>, <<90, 77>>>>,  \* "зум": "ZM"
    <<<<117, 98, 101, 114>>, <<85, 66, 69, 82>>>>,  \* "uber": "UBER"
    <<<<1091, 1073, 1077, 1088>>, <<85, 66, 69, 82>>>>,  \* "убер": "UBER"
    <<<<97, 105, 114, 98, 110, 98>>, <<65, 66, 78, 66>>>>,  \* "airbnb": "ABNB"
    <<<<1072, 1080, 1088, 1073, 1085, 1073>>, <<65, 66, 78, 66>>>>,  \* "аирбнб": "ABNB"
    <<<<98, 105, 116, 99, 111, 105, 110>>, <<66, 84, 67, 85, 83, 68>>>>,  \* "bitcoin": "BTCUSD"
    <<<<98, 116, 99>>, <<66, 84, 67, 85, 83, 68>>>>,  \* "btc": "BTCUSD"
    <<<<1073, 1110, 1090, 1082, 1086, 1111, 1085>>, <<66, 84, 67, 85, 83, 68>>>>,  \* "біткоїн": "BTCUSD"
    <<<<1073, 1080, 1090, 1082, 1086, 1080, 1085>>, <<66, 84, 67, 85, 83, 68>>>>,  \* "биткоин": "BTCUSD"
    <<<<101, 116, 104, 101, 114, 101, 117, 109>>, <<69, 84, 72, 85, 83, 68>>>>,  \* "ethereum": "ETHUSD"
    <<<<101, 116, 104>>, <<69, 84, 72, 85, 83, 68>>>>,  \* "eth": "ETHUSD"
    <<<<1077, 1092, 1110, 1088, 1110, 1091, 1084>>, <<69, 84, 72, 85, 83, 68>>>>,  \* "ефіріум": "ETHUSD"
    <<<<1101, 1092, 1080, 1088, 1080, 1091, 1084>>, <<69, 84, 72, 85, 83, 68>>>>,  \* "эфириум": "ETHUSD"
    <<<<99, 97, 114, 100, 97, 110, 111>>, <<65, 68, 65, 85, 83, 68>>>>,  \* "cardano": "ADAUSD"
    <<<<97, 100, 97>>, <<65, 68, 65, 85, 83, 68>>>>,  \* "ada": "ADAUSD"
    <<<<1082, 1072, 1088, 1076, 1072, 1085, 1086>>, <<65, 68, 65, 85, 83, 68>>>>,  \* "кардано": "ADAUSD"
    <<<<115, 111, 108, 97, 110, 97>>, <<83, 79, 76, 85, 83, 68>>>>,  \* "solana": "SOLUSD"
    <<<<115, 111, 108>>, <<83, 79, 76, 85, 83, 68>>>>,  \* "sol": "SOLUSD"
    <<<<1089, 1086, 1083, 1072, 1085, 1072>>, <<83, 79, 76, 85, 83, 68>>>>,  \* "солана": "SOLUSD"
    <<<<100, 111, 103, 101, 99, 111, 105, 110>>, <<68, 79, 71, 69, 85, 83, 68>>>>,  \* "dogecoin": "DOGEUSD"
    <<<<100, 111, 103, 101>>, <<68, 79, 71, 69, 85, 83, 68>>>>,  \* "doge": "DOGEUSD"
    <<<<1076, 1086, 1075, 1077>>, <<68, 79, 71, 69, 85, 83, 68>>>>,  \* "доге": "DOGEUSD"
    <<<<101, 117, 114, 117, 115, 100>>, <<69, 85, 82, 85, 83, 68>>>>,  \* "eurusd": "EURUSD"
    <<<<1108, 1074, 1088, 1086>>, <<69, 85, 82, 85, 83, 68>>>>,  \* "євро": "EURUSD"
    <<<<101, 117, 114, 111>>, <<69, 85, 82, 85, 83, 68>>>>,  \* "euro": "EURUSD"
    <<<<103, 98, 112, 117, 115, 100>>, <<71, 66, 80, 85, 83, 68>>>>,  \* "gbpusd": "GBPUSD"
    <<<<1092, 1091, 1085, 1090>>, <<71, 66, 80, 85, 83, 68>>>>,  \* "фунт": "GBPUSD"
    <<<<112, 111, 117, 110, 100>>, <<71, 66, 80, 85, 83, 68>>>>,  \* "pound": "GBPUSD"
    <<<<117, 115, 100, 106, 112, 121>>, <<85, 83, 68, 74, 80, 89>>>>,  \* "usdjpy": "USDJPY"
    <<<<1081, 1077, 1085, 1072>>, <<85, 83, 68, 74, 80, 89>>>>,  \* "йена": "USDJPY"
    <<<<121, 101, 110>>, <<85, 83, 68, 74, 80, 89>>>>,  \* "yen": "USDJPY"
    <<<<117, 115, 100, 99, 97, 100>>, <<85, 83, 68, 67, 65, 68>>>>,  \* "usdcad": "USDCAD"
    <<<<1082, 1072, 1085, 1072, 1076, 1089, 1100, 1082, 1080, 1081, 32, 1076, 1086, 1083, 1072, 1088>>, <<85, 83, 68, 67, 65, 68>>>>  \* "канадський долар": "USDCAD"
  >>

\* tools.py:168-172, in dictionary order: <<category name, symbols of the category>>
ASSET_CATEGORIES ==
  <<
    <<<<115, 116, 111, 99, 107, 115>>, <<<<65, 65, 80, 76>>, <<77, 83, 70, 84>>, <<71, 79, 79, 71, 76>>, <<65, 77, 90, 78>>, <<84, 83, 76, 65>>, <<78, 86, 68, 65>>, <<77, 69, 84, 65>>, <<78, 70, 76, 88>>, <<65, 77, 68>>, <<73, 78, 84, 67>>, <<67, 79, 73, 78>>, <<90, 77>>, <<85, 66, 69, 82>>, <<65, 66, 78, 66>>>>>>,  \* "stocks": ['AAPL', 'MSFT', 'GOOGL', 'AMZN', 'TSLA', 'NVDA', 'META', 'NFLX', 'AMD', 'INTC', 'COIN', 'ZM', 'UBER', 'ABNB']
    <<<<99, 114, 121, 112, 116, 111>>, <<<<66, 84, 67, 85, 83, 68>>, <<69, 84, 72, 85, 83, 68>>, <<65, 68, 65, 85, 83, 68>>, <<83, 79, 76, 85, 83, 68>>, <<68, 79, 71, 69, 85, 83, 68>>>>>>,  \* "crypto": ['BTCUSD', 'ETHUSD', 'ADAUSD', 'SOLUSD', 'DOGEUSD']
    <<<<102, 111, 114, 101, 120>>, <<<<69, 85, 82, 85, 83, 68>>, <<71, 66, 80, 85, 83, 68>>, <<85, 83, 68, 74, 80, 89>>, <<85, 83, 68, 67, 65, 68>>>>>>  \* "forex": ['EURUSD', 'GBPUSD', 'USDJPY', 'USDCAD']
  >>

\* main.py:410-422: <<symbol, display name>>
DISPLAY_NAMES ==
  <<
    <<<<65, 65, 80, 76>>, <<65, 112, 112, 108, 101>>>>,  \* "AAPL": "Apple"
    <<<<84, 83, 76, 65>>, <<84, 101, 115, 108, 97>>>>,  \* "TSLA": "Tesla"
    <<<<71, 79, 79, 71, 76>>, <<71, 111, 111, 103, 108, 101>>>>,  \* "GOOGL": "Google"
    <<<<77, 83, 70, 84>>, <<77, 105, 99, 114, 111, 115, 111, 102, 116>>>>,  \* "MSFT": "Microsoft"
    <<<<65, 77, 90, 78>>, <<65, 109, 97, 122, 111, 110>>>>,  \* "AMZN": "Amazon"
    <<<<77, 69, 84, 65>>, <<77, 101, 116, 97>>>>,  \* "META": "Meta"
    <<<<78, 86, 68, 65>>, <<78, 86, 73, 68, 73, 65>>>>,  \* "NVDA": "NVIDIA"
    <<<<66, 84, 67, 85, 83, 68>>, <<66, 105, 116, 99, 111, 105, 110>>>>,  \* "BTCUSD": "Bitcoin"
    <<<<69, 84, 72, 85, 83, 68>>, <<69, 116, 104, 101, 114, 101, 117, 109>>>>,  \* "ETHUSD": "Ethereum"
    <<<<69, 85, 82, 85, 83, 68>>, <<69, 85, 82, 47, 85, 83, 68>>>>,  \* "EURUSD": "EUR/USD"
    <<<<71, 66, 80, 85, 83, 68>>, <<71, 66, 80, 47, 85, 83, 68>>>>  \* "GBPUSD": "GBP/USD"
  >>

\* tools.py:175-181
NON_FINANCIAL_KEYWORDS ==
  <<
    <<114, 97, 121, 115>>,  \* "rays"
    <<98, 97, 115, 101, 98, 97, 108, 108>>,  \* "baseball"
    <<102, 111, 111, 116, 98, 97, 108, 108>>,  \* "football"
    <<115, 111, 99, 99, 101, 114>>,  \* "soccer"
    <<103, 97, 109, 101>>,  \* "game"
    <<115, 112, 111, 114, 116>>,  \* "sport"
    <<116, 101, 97, 109>>,  \* "team"
    <<112, 108, 97, 121, 101, 114>>,  \* "player"
    <<119, 101, 97, 116, 104, 101, 114>>,  \* "weather"
    <<1087, 1086, 1075, 1086, 1076, 1072>>,  \* "погода"
    <<1090, 1077, 1084, 1087, 1077, 1088, 1072, 1090, 1091, 1088, 1072>>,  \* "температура"
    <<1076, 1086, 1078, 1076, 1100>>,  \* "дождь"
    <<1089, 1085, 1077, 1075>>,  \* "снег"
    <<99, 97, 116>>,  \* "cat"
    <<100, 111, 103>>,  \* "dog"
    <<1082, 1086, 1090>>,  \* "кот"
    <<1089, 1086, 1073, 1072, 1082, 1072>>,  \* "собака"
    <<1076, 1086, 1084, 1072, 1096, 1085, 1110, 32, 1090, 1074, 1072, 1088, 1080, 1085, 1080>>,  \* "домашні тварини"
    <<114, 101, 99, 105, 112, 101>>,  \* "recipe"
    <<1088, 1077, 1094, 1077, 1087, 1090>>,  \* "рецепт"
    <<1075, 1086, 1090, 1091, 1074, 1072, 1090, 1080>>,  \* "готувати"
    <<1111, 1078, 1072>>,  \* "їжа"
    <<102, 111, 111, 100>>,  \* "food"
    <<109, 111, 118, 105, 101>>,  \* "movie"
    <<1092, 1110, 1083, 1100, 1084>>,  \* "фільм"
    <<1082, 1080, 1085, 1086>>,  \* "кино"
    <<1089, 1077, 1088, 1110, 1072, 1083>>  \* "серіал"
  >>

\* tools.py:528
PLAN_PRICE_WORDS ==
  <<
    <<1094, 1110, 1085, 1072>>,  \* "ціна"
    <<1089, 1082, 1110, 1083, 1100, 1082, 1080>>,  \* "скільки"
    <<1082, 1086, 1096, 1090, 1091, 1108>>,  \* "коштує"
    <<112, 114, 105, 99, 101>>,  \* "price"
    <<99, 111, 115, 116>>  \* "cost"
  >>

\* tools.py:532
PLAN_INVEST_WORDS ==
  <<
    <<1074, 1072, 1088, 1090, 1086>>,  \* "варто"
    <<1082, 1091, 1087, 1080, 1090, 1080>>,  \* "купити"
    <<1074, 1082, 1083, 1072, 1076, 1072, 1090, 1080>>,  \* "вкладати"
    <<1080, 1085, 1074, 1077, 1089, 1090, 1080, 1088, 1086, 1074, 1072, 1090, 1100>>,  \* "инвестировать"
    <<98, 117, 121>>,  \* "buy"
    <<105, 110, 118, 101, 115, 116>>  \* "invest"
  >>

\* tools.py:540
PLAN_SITUATION_WORDS ==
  <<
    <<1085, 1086, 1074, 1080, 1085, 1080>>,  \* "новини"
    <<1097, 1086>>,  \* "що"
    <<1089, 1080, 1090, 1091, 1072, 1094, 1110, 1103>>,  \* "ситуація"
    <<1089, 1090, 1072, 1085>>,  \* "стан"
    <<110, 101, 119, 115>>,  \* "news"
    <<115, 105, 116, 117, 97, 116, 105, 111, 110>>  \* "situation"
  >>

\* tools.py:555
PLAN_MARKET_WORDS ==
  <<
    <<1088, 1080, 1085, 1086, 1082>>,  \* "ринок"
    <<1089, 1080, 1090, 1091, 1072, 1094, 1110, 1103>>,  \* "ситуація"
    <<1085, 1086, 1074, 1080, 1085, 1080>>,  \* "новини"
    <<109, 97, 114, 107, 101, 116>>,  \* "market"
    <<110, 101, 119, 115>>,  \* "news"
    <<115, 101, 110, 116, 105, 109, 101, 110, 116>>  \* "sentiment"
  >>

\* tools.py:561
PLAN_GENERAL_INVEST_WORDS ==
  <<
    <<1074, 1082, 1083, 1072, 1076, 1072, 1090, 1080>>,  \* "вкладати"
    <<1082, 1091, 1087, 1080, 1090, 1080>>,  \* "купити"
    <<1080, 1085, 1074, 1077, 1089, 1090, 1080, 1088, 1086, 1074, 1072, 1090, 1100>>,  \* "инвестировать"
    <<105, 110, 118, 101, 115, 116>>,  \* "invest"
    <<98, 117, 121>>  \* "buy"
  >>

\* main.py:382
FMT_PRICE_WORDS ==
  <<
    <<1094, 1110, 1085, 1072>>,  \* "ціна"
    <<1089, 1082, 1110, 1083, 1100, 1082, 1080>>,  \* "скільки"
    <<1082, 1086, 1096, 1090, 1091, 1108>>,  \* "коштує"
    <<112, 114, 105, 99, 101>>,  \* "price"
    <<99, 111, 115, 116>>  \* "cost"
  >>

\* main.py:386
FMT_INVEST_WORDS ==
  <<
    <<1074, 1072, 1088, 1090, 1086>>,  \* "варто"
    <<1082, 1091, 1087, 1080, 1090, 1080>>,  \* "купити"
    <<1074, 1082, 1083, 1072, 1076, 1072, 1090, 1080>>,  \* "вкладати"
    <<1110, 1085, 1074, 1077, 1089, 1090, 1091, 1074, 1072, 1090, 1080>>,  \* "інвестувати"
    <<98, 117, 121>>,  \* "buy"
    <<105, 110, 118, 101, 115, 116>>  \* "invest"
  >>

\* main.py:390
FMT_SITUATION_WORDS ==
  <<
    <<1085, 1086, 1074, 1080, 1085, 1080>>,  \* "новини"
    <<1097, 1086>>,  \* "що"
    <<1089, 1080, 1090, 1091, 1072, 1094, 1110, 1103>>,  \* "ситуація"
    <<1089, 1090, 1072, 1085>>,  \* "стан"
    <<110, 101, 119, 115>>,  \* "news"
    <<115, 105, 116, 117, 97, 116, 105, 111, 110>>  \* "situation"
  >>

\* main.py:399
FMT_MARKET_WORDS ==
  <<
    <<1088, 1080, 1085, 1086, 1082>>,  \* "ринок"
    <<1089, 1080, 1090, 1091, 1072, 1094, 1110, 1103>>,  \* "ситуація"
    <<1085, 1086, 1074, 1080, 1085, 1080>>,  \* "новини"
    <<109, 97, 114, 107, 101, 116>>,  \* "market"
    <<110, 101, 119, 115>>  \* "news"
  >>

\* main.py:401
FMT_GENERAL_INVEST_WORDS ==
  <<
    <<1074, 1082, 1083, 1072, 1076, 1072, 1090, 1080>>,  \* "вкладати"
    <<1082, 1091, 1087, 1080, 1090, 1080>>,  \* "купити"
    <<1110, 1085, 1074, 1077, 1089, 1090, 1091, 1074, 1072, 1090, 1080>>,  \* "інвестувати"
    <<105, 110, 118, 101, 115, 116>>,  \* "invest"
    <<98, 117, 121>>  \* "buy"
  >>

STR_USD == <<85, 83, 68>>  \* "USD"
STR_stock == <<115, 116, 111, 99, 107>>  \* "stock"
STR_crypto == <<99, 114, 121, 112, 116, 111>>  \* "crypto"
STR_forex == <<102, 111, 114, 101, 120>>  \* "forex"
STR_stocks == <<115, 116, 111, 99, 107, 115>>  \* "stocks"
STR_investment_analysis == <<32, 105, 110, 118, 101, 115, 116, 109, 101, 110, 116, 32, 97, 110, 97, 108, 121, 115, 105, 115>>  \* " investment analysis"
STR_general_market_analysis == <<103, 101, 110, 101, 114, 97, 108, 32, 109, 97, 114, 107, 101, 116, 32, 97, 110, 97, 108, 121, 115, 105, 115>>  \* "general market analysis"
STR_general == <<103, 101, 110, 101, 114, 97, 108>>  \* "general"
AAPL == <<65, 65, 80, 76>>  \* "AAPL"
BTCUSD == <<66, 84, 67, 85, 83, 68>>  \* "BTCUSD"

\* The phrases the utterances of the model are built from (joined by single spaces)
Fragments ==
  {
    <<1062, 1110, 1085, 1072>>,  \* "Ціна"
    <<65, 112, 112, 108, 101>>,  \* "Apple"
    <<82, 97, 121, 115>>,  \* "Rays"
    <<116, 114, 97, 100, 101, 32, 100, 101, 97, 100, 108, 105, 110, 101>>,  \* "trade deadline"
    <<1050, 1091, 1076, 1080>>,  \* "Куди"
    <<1074, 1082, 1083, 1072, 1076, 1072, 1090, 1080, 32, 1075, 1088, 1086, 1096, 1110, 63>>,  \* "вкладати гроші?"
    <<66, 105, 116, 99, 111, 105, 110>>,  \* "Bitcoin"
    <<1085, 1086, 1074, 1080, 1085, 1080>>,  \* "новини"
    <<112, 105, 101, 32, 1088, 1077, 1094, 1077, 1087, 1090>>,  \* "pie рецепт"
    <<68, 79, 71, 69>>,  \* "DOGE"
    <<78, 70, 76, 88>>,  \* "NFLX"
    <<73, 66, 77>>,  \* "IBM"
    <<84, 101, 115, 108, 97>>,  \* "Tesla"
    <<85, 83, 68, 74, 80, 89>>  \* "USDJPY"
  }

(***************************************************************************)
(* str operations                                                          *)
(***************************************************************************)

\* str.lower() on one character: A-Z, the Cyrillic capitals U+0410..U+042F
\* and U+0400..U+040F become the corresponding small letters
LowerChar(c) ==
  IF c >= 65 /\ c <= 90 THEN c + 32
  ELSE IF c >= 1040 /\ c <= 1071 THEN c + 32
  ELSE IF c >= 1024 /\ c <= 1039 THEN c + 80
  ELSE c

lower(s) == [k \in 1..Len(s) |-> LowerChar(s[k])]

\* `needle in hay`
Contains(needle, hay) ==
  \E p \in 0..(Len(hay) - Len(needle)) :
    \A k \in 1..Len(needle) : hay[p + k] = needle[k]

\* any(word in s for word in words)
AnyWordIn(words, s) == \E k \in 1..Len(words) : Contains(words[k], s)

\* s.endswith(suffix)
EndsWith(s, suffix) ==
  /\ Len(suffix) <= Len(s)
  /\ SubSeq(s, Len(s) - Len(suffix) + 1, Len(s)) = suffix

\* s.startswith(prefix)
StartsWith(s, prefix) ==
  /\ Len(prefix) <= Len(s)
  /\ SubSeq(s, 1, Len(prefix)) = prefix

\* s.replace(old, ""): every non-overlapping occurrence of old, left to right
RECURSIVE Remove(_, _)
Remove(s, old) ==
  IF Len(s) < Len(old) THEN s
  ELSE IF StartsWith(s, old) THEN Remove(SubSeq(s, Len(old) + 1, Len(s)), old)
  ELSE <<s[1]>> \o Remove(Tail(s), old)

\* s.rstrip('s')
RECURSIVE rstrip_s(_)
rstrip_s(s) ==
  IF Len(s) > 0 /\ s[Len(s)] = 115 THEN rstrip_s(SubSeq(s, 1, Len(s) - 1)) ELSE s

\* truthiness of an Optional[str]
Truthy(s) == s # None /\ s # <<>>

Min(S) == CHOOSE x \in S : \A y \in S : x <= y

\* \w of the re module on str: letters, digits and the underscore
IsWordChar(c) ==
  \/ c >= 48 /\ c <= 57
  \/ c >= 65 /\ c <= 90
  \/ c = 95
  \/ c >= 97 /\ c <= 122
  \/ c >= 1024 /\ c <= 1279

\* \b between s[p] and s[p+1] (p = 0: before the first character)
WordBoundary(s, p) ==
  LET left == p >= 1 /\ IsWordChar(s[p])
      right == p < Len(s) /\ IsWordChar(s[p + 1])
  IN left # right

\* the start positions and lengths at which \b[A-Z]{3,5}\b matches in s
TickerMatches(s) ==
  { m \in (1..Len(s)) \X (3..5) :
      /\ m[1] + m[2] - 1 <= Len(s)
      /\ \A k \in m[1]..(m[1] + m[2] - 1) : s[k] >= 65 /\ s[k] <= 90
      /\ WordBoundary(s, m[1] - 1)
      /\ WordBoundary(s, m[1] + m[2] - 1) }

\* re.findall(r'\b[A-Z]{3,5}\b', s)[0]: the leftmost match
FirstTicker(s) ==
  LET start == Min({m[1] : m \in TickerMatches(s)})
      m == CHOOSE x \in TickerMatches(s) : x[1] = start
  IN SubSeq(s, start, start + m[2] - 1)

(***************************************************************************)
(* detect_entity                                                           *)
(***************************************************************************)

\* ASSET_CATEGORIES[name]
Category(name) ==
  LET k == CHOOSE k \in 1..Len(ASSET_CATEGORIES) : ASSET_CATEGORIES[k][1] = name
  IN ASSET_CATEGORIES[k][2]

InList(x, list) == \E k \in 1..Len(list) : list[k] = x

\* the keys of POPULAR_TICKERS contained in the lower-cased text
AliasMatches(user_input_lower) ==
  { k \in 1..Len(POPULAR_TICKERS) : Contains(POPULAR_TICKERS[k][1], user_input_lower) }

\* entity_type of the dictionary step (tools.py:433-437)
AliasEntityType(ticker) ==
  IF InList(ticker, Category(STR_crypto)) THEN STR_crypto
  ELSE IF InList(ticker, Category(STR_forex)) THEN STR_forex
  ELSE STR_stock

\* entity_type of the pattern step (tools.py:451-456): the first category,
\* in dictionary order, that lists the ticker, its name without trailing 's'
PatternEntityType(ticker) ==
  LET hits == { k \in 1..Len(ASSET_CATEGORIES) : InList(ticker, ASSET_CATEGORIES[k][2]) }
  IN IF hits = {} THEN STR_stock ELSE rstrip_s(ASSET_CATEGORIES[Min(hits)][1])

EntityInfo(fin, e, t, c) ==
  [is_financial |-> fin, entity |-> e, entity_type |-> t, confidence |-> c]

\* What the model service can answer to the entity-detection request:
\* the request fails after the retries, the reply is not JSON, or the reply
\* is a JSON object with the four fields (nothing forces it to be coherent).
\* confidence is in hundredths.
LLMReplies ==
  { [kind |-> "failure", value |-> EntityInfo(FALSE, None, None, 0)],
    [kind |-> "unparseable", value |-> EntityInfo(FALSE, None, None, 0)],
    [kind |-> "json", value |-> EntityInfo(TRUE, AAPL, STR_stock, 95)],
    [kind |-> "json", value |-> EntityInfo(TRUE, BTCUSD, STR_crypto, 90)],
    [kind |-> "json", value |-> EntityInfo(FALSE, None, None, 80)],
    [kind |-> "json", value |-> EntityInfo(TRUE, None, None, 50)],
    [kind |-> "json", value |-> EntityInfo(FALSE, AAPL, STR_stock, 50)] }

\* the model service was not asked
NoReply == [kind |-> "not asked", value |-> EntityInfo(FALSE, None, None, 0)]

\* LLMStep without the try/except of tools.py:466 and 496-503: the exception
\* of the request or of json.loads leaves detect_entity
LLMStep_NoTry(reply) ==
  IF reply.kind = "json" THEN [exc |-> FALSE, ret |-> reply.value]
  ELSE [exc |-> TRUE, ret |-> EntityInfo(FALSE, None, None, 0)]

\* tools.py:465-503: json.loads(result) is returned as it is; a failed
\* request or a reply that is not JSON gives the confidence-0 default
LLMStep(reply) ==
  IF reply.kind = "json" THEN [exc |-> FALSE, ret |-> reply.value]
  ELSE [exc |-> FALSE, ret |-> EntityInfo(FALSE, None, None, 0)]

Max(S) == CHOOSE x \in S : \A y \in S : x >= y

\* AliasTicker with the loop keeping the last matching key instead of
\* returning at the first one
AliasTicker_LastMatch(user_input_lower) ==
  POPULAR_TICKERS[Max(AliasMatches(user_input_lower))][2]

\* tools.py:430-431: the symbol of the first key of POPULAR_TICKERS, in
\* dictionary order, that the lower-cased text contains
AliasTicker(user_input_lower) ==
  POPULAR_TICKERS[Min(AliasMatches(user_input_lower))][2]

\* AfterBlocklist with the pattern step tried before the dictionary step
AfterBlocklist_PatternFirst(text, reply) ==
  LET user_input_lower == lower(text) IN
  IF TickerMatches(text) # {}
  THEN LET ticker == FirstTicker(text)
       IN [ret |-> EntityInfo(TRUE, ticker, PatternEntityType(ticker), 70), calls |-> <<>>,
           exc |-> FALSE, asked |-> NoReply]
  ELSE IF AliasMatches(user_input_lower) # {}
  THEN LET ticker == AliasTicker(user_input_lower)
       IN [ret |-> EntityInfo(TRUE, ticker, AliasEntityType(ticker), 90), calls |-> <<>>,
           exc |-> FALSE, asked |-> NoReply]
  ELSE [ret |-> LLMStep(reply).ret, calls |-> << <<"openai_entity", text>> >>,
        exc |-> LLMStep(reply).exc, asked |-> reply]

\* tools.py:429-503: the steps of detect_entity after the blocklist check.
\* ret is the returned EntityInfo, calls the requests made to the model service
AfterBlocklist(text, reply) ==
  LET user_input_lower == lower(text) IN
  IF AliasMatches(user_input_lower) # {}
  THEN LET ticker == AliasTicker(user_input_lower)
       IN [ret |-> EntityInfo(TRUE, ticker, AliasEntityType(ticker), 90), calls |-> <<>>,
           exc |-> FALSE, asked |-> NoReply]
  ELSE IF TickerMatches(text) # {}
  THEN LET ticker == FirstTicker(text)
       IN [ret |-> EntityInfo(TRUE, ticker, PatternEntityType(ticker), 70), calls |-> <<>>,
           exc |-> FALSE, asked |-> NoReply]
  ELSE [ret |-> LLMStep(reply).ret, calls |-> << <<"openai_entity", text>> >>,
        exc |-> LLMStep(reply).exc, asked |-> reply]

\* detect_entity without the blocklist check of tools.py:420-427
detect_entity_NoBlocklist(text, reply) == AfterBlocklist(text, reply)

\* detect_entity(user_input), reply being the model's answer if it is asked
detect_entity(text, reply) ==
  IF AnyWordIn(NON_FINANCIAL_KEYWORDS, lower(text))
  THEN [ret |-> EntityInfo(FALSE, None, None, 80), calls |-> <<>>,
        exc |-> FALSE, asked |-> NoReply]
  ELSE AfterBlocklist(text, reply)

(***************************************************************************)
(* plan_actions                                                            *)
(***************************************************************************)

GetPrice(entity) == [action |-> "get_price", params |-> [symbol |-> entity]]

GetNewsTargeted(entity) ==
  [action |-> "get_news_targeted", params |-> [query |-> Remove(entity, STR_USD)]]

GenerateAdvice(context) == [action |-> "generate_advice", params |-> [context |-> context]]

GetNewsGeneral == [action |-> "get_news_general"]

AnalyzeSentiment == [action |-> "analyze_sentiment"]

\* EntityPlan with `if` in place of the first `elif` (tools.py:532): the
\* investment actions are added after the price action
EntityPlan_IfNotElif(user_lower, entity) ==
  (IF AnyWordIn(PLAN_PRICE_WORDS, user_lower) THEN <<GetPrice(entity)>> ELSE <<>>)
  \o (IF AnyWordIn(PLAN_INVEST_WORDS, user_lower)
      THEN <<GetPrice(entity), GetNewsTargeted(entity),
             GenerateAdvice(entity \o STR_investment_analysis)>>
      ELSE IF AnyWordIn(PLAN_PRICE_WORDS, user_lower) THEN <<>>
      ELSE <<GetPrice(entity), GetNewsTargeted(entity)>>)

\* EntityPlan with the investment words tested before the price words
EntityPlan_InvestFirst(user_lower, entity) ==
  IF AnyWordIn(PLAN_INVEST_WORDS, user_lower)
  THEN <<GetPrice(entity), GetNewsTargeted(entity),
         GenerateAdvice(entity \o STR_investment_analysis)>>
  ELSE IF AnyWordIn(PLAN_PRICE_WORDS, user_lower)
  THEN <<GetPrice(entity)>>
  ELSE <<GetPrice(entity), GetNewsTargeted(entity)>>

\* tools.py:524-551: the if/elif chain for a request about an asset
EntityPlan(user_lower, entity) ==
  IF AnyWordIn(PLAN_PRICE_WORDS, user_lower)
  THEN <<GetPrice(entity)>>
  ELSE IF AnyWordIn(PLAN_INVEST_WORDS, user_lower)
  THEN <<GetPrice(entity), GetNewsTargeted(entity),
         GenerateAdvice(entity \o STR_investment_analysis)>>
  ELSE IF AnyWordIn(PLAN_SITUATION_WORDS, user_lower)
  THEN <<GetPrice(entity), GetNewsTargeted(entity)>>
  ELSE <<GetPrice(entity), GetNewsTargeted(entity)>>

\* GeneralPlan with analyze_sentiment placed before get_news_general
GeneralPlan_SentimentFirst(user_lower) ==
  IF AnyWordIn(PLAN_MARKET_WORDS, user_lower)
  THEN <<AnalyzeSentiment, GetNewsGeneral>>
  ELSE IF AnyWordIn(PLAN_GENERAL_INVEST_WORDS, user_lower)
  THEN <<AnalyzeSentiment, GetNewsGeneral, GenerateAdvice(STR_general_market_analysis)>>
  ELSE <<>>

\* GeneralPlan with the investment words tested before the market words
GeneralPlan_InvestFirst(user_lower) ==
  IF AnyWordIn(PLAN_GENERAL_INVEST_WORDS, user_lower)
  THEN <<GetNewsGeneral, AnalyzeSentiment, GenerateAdvice(STR_general_market_analysis)>>
  ELSE IF AnyWordIn(PLAN_MARKET_WORDS, user_lower)
  THEN <<GetNewsGeneral, AnalyzeSentiment>>
  ELSE <<>>

\* tools.py:553-566: the if/elif chain for a request without an asset
GeneralPlan(user_lower) ==
  IF AnyWordIn(PLAN_MARKET_WORDS, user_lower)
  THEN <<GetNewsGeneral, AnalyzeSentiment>>
  ELSE IF AnyWordIn(PLAN_GENERAL_INVEST_WORDS, user_lower)
  THEN <<GetNewsGeneral, AnalyzeSentiment, GenerateAdvice(STR_general_market_analysis)>>
  ELSE <<>>

\* plan_actions(user_input, entity_info); reasoning is the pair the f-string prints
plan_actions(text, info) ==
  LET user_lower == lower(text) IN
  [actions |-> IF info.is_financial /\ Truthy(info.entity)
               THEN EntityPlan(user_lower, info.entity)
               ELSE GeneralPlan(user_lower),
   reasoning |-> <<info.entity, info.entity_type>>]

(***************************************************************************)
(* get_price and the collaborators of execute_action_plan                  *)
(***************************************************************************)

\* The bounds of the model
MaxFragments == 2
MaxNews == 2

UpperChar(c) ==
  IF c >= 97 /\ c <= 122 THEN c - 32
  ELSE IF c >= 1072 /\ c <= 1103 THEN c - 32
  ELSE IF c >= 1104 /\ c <= 1119 THEN c - 80
  ELSE c

upper(s) == [k \in 1..Len(s) |-> UpperChar(s[k])]

\* s.isupper(): no small letter and at least one capital
isupper(s) ==
  /\ \A k \in 1..Len(s) : UpperChar(s[k]) = s[k]
  /\ \E k \in 1..Len(s) : LowerChar(s[k]) # s[k]

\* tools.py:585-598: the provider function get_price hands the symbol to
PriceProvider(symbol) ==
  IF InList(symbol, Category(STR_stocks)) THEN "get_stock_price"
  ELSE IF InList(symbol, Category(STR_crypto)) THEN "get_crypto_price"
  ELSE IF InList(symbol, Category(STR_forex)) THEN "get_forex_price"
  ELSE IF Contains(STR_USD, symbol) /\ Len(symbol) <= 7 THEN "get_crypto_price"
  ELSE IF Len(symbol) = 6 /\ isupper(symbol) THEN "get_forex_price"
  ELSE "get_stock_price"

\* tools.py:320-324: BTCUSD -> BTC/USD
CryptoSymbol(symbol) ==
  IF EndsWith(upper(symbol), STR_USD) /\ Len(symbol) > 3
  THEN SubSeq(upper(symbol), 1, Len(symbol) - 3) \o <<47>> \o STR_USD
  ELSE upper(symbol)

\* get_price(symbol): the provider's payload when its request succeeds
\* (outcome "ok") and its error payload when the key is missing or the
\* request fails (outcome "error"); no provider function raises
get_price(symbol, outcome) ==
  LET provider == PriceProvider(symbol) IN
  IF outcome = "error" THEN [error |-> <<provider, "failed">>]
  ELSE IF provider = "get_stock_price"
  THEN [symbol |-> upper(symbol), price |-> 100, currency |-> STR_USD]
  ELSE IF provider = "get_crypto_price"
  THEN [symbol |-> CryptoSymbol(symbol), price |-> 100, currency |-> STR_USD]
  ELSE [symbol |-> symbol, price |-> 100, currency |-> STR_USD]

\* a news list of n items as the providers build it (title, full_text, ...)
NewsList(source, n) == [k \in 1..n |-> [title |-> <<source, k>>, full_text |-> <<source, k>>]]

\* what the sentiment request for one news text can end in
SentimentOutcomes == {"bullish", "exception", "unparseable", "bad_schema"}

\* tools.py:93-109: one entry of processed_results
ProcessedResult(outcome) ==
  IF outcome = "exception"
  THEN [sentiment |-> "neutral", explanation |-> "analysis error", confidence |-> 0]
  ELSE IF outcome = "unparseable"
  THEN [sentiment |-> "neutral", explanation |-> "could not parse", confidence |-> 0]
  ELSE IF outcome = "bad_schema"
  THEN [unexpected |-> "json"]
  ELSE [sentiment |-> outcome, explanation |-> "model", confidence |-> 80]

\* analyze_multiple_news(news_list), outcomes[k] being the fate of item k
analyze_multiple_news(news_list, outcomes) ==
  [k \in 1..Len(news_list) |-> ProcessedResult(outcomes[k])]

FirstN(s, n) == SubSeq(s, 1, IF Len(s) < n THEN Len(s) ELSE n)

Get(data, key, default) == IF key \in DOMAIN data THEN data[key] ELSE default

\* NewsToAnalyze with general_news preferred to targeted_news
NewsToAnalyze_GeneralFirst(data) ==
  IF Get(data, "general_news", <<>>) # <<>> THEN data["general_news"]
  ELSE Get(data, "targeted_news", <<>>)

\* tools.py:726: targeted_news if present and non-empty, else general_news
NewsToAnalyze(data) ==
  IF Get(data, "targeted_news", <<>>) # <<>> THEN data["targeted_news"]
  ELSE Get(data, "general_news", <<>>)

HasError(price_data) == "error" \in DOMAIN price_data

\* s["sentiment"] raises KeyError for an entry without that field
TallyRaises(sentiment_data) ==
  \E k \in 1..Len(sentiment_data) : "sentiment" \notin DOMAIN sentiment_data[k]

Count(sentiment_data, label) ==
  Cardinality({k \in 1..Len(sentiment_data) : sentiment_data[k].sentiment = label})

\* generate_investment_advice(data, context): the tally of tools.py:771-775
\* is outside the try block of tools.py:815-837
generate_investment_advice(data, context, outcome) ==
  IF "sentiment" \in DOMAIN data /\ TallyRaises(data["sentiment"])
  THEN [exc |-> TRUE, ret |-> "none"]
  ELSE IF outcome = "error"
  THEN [exc |-> FALSE, ret |-> "advice generation failed: error text"]
  ELSE [exc |-> FALSE, ret |-> "advice text"]

(***************************************************************************)
(* execute_action_plan                                                     *)
(***************************************************************************)

\* what the collaborators do during one action
DefaultEnv == [price |-> "ok", news |-> 0, sentiments |-> <<>>, advice |-> "ok"]

\* news = -1: get_news (or its import) raises
Envs(action, data) ==
  IF action.action = "get_price"
  THEN {[DefaultEnv EXCEPT !.price = o] : o \in {"ok", "error"}}
  ELSE IF action.action = "get_news_targeted"
  THEN {[DefaultEnv EXCEPT !.news = n] : n \in 0..MaxNews}
  ELSE IF action.action = "get_news_general"
  THEN {[DefaultEnv EXCEPT !.news = n] : n \in (-1)..MaxNews}
  ELSE IF action.action = "analyze_sentiment"
  THEN {[DefaultEnv EXCEPT !.sentiments = s] :
          s \in [1..Len(FirstN(NewsToAnalyze(data), 3)) -> SentimentOutcomes]}
  ELSE {[DefaultEnv EXCEPT !.advice = o] : o \in {"ok", "error"}}

Params(action) == IF "params" \in DOMAIN action THEN action.params ELSE <<>>

Body(exc, key, value, log, made) ==
  [exc |-> exc, key |-> key, value |-> value, log |-> log, calls |-> made]

\* tools.py:705-738: the body of the try block for one action
ActionBody(action, data, env) ==
  LET action_type == action.action
      params == Params(action)
  IN
  IF action_type = "get_price"
  THEN Body(FALSE, "price", get_price(params.symbol, env.price),
            <<"got price", params.symbol>>,
            << <<PriceProvider(params.symbol), params.symbol>> >>)
  ELSE IF action_type = "get_news_targeted"
  THEN Body(FALSE, "targeted_news", NewsList("targeted", env.news),
            <<"got news", params.query>>,
            << <<"get_news_targeted", params.query>> >>)
  ELSE IF action_type = "get_news_general"
  THEN IF env.news < 0
       THEN Body(TRUE, "none", <<>>, <<>>, << <<"get_news">> >>)
       ELSE Body(FALSE, "general_news", NewsList("general", env.news),
                 <<"got general news">>, << <<"get_news">> >>)
  ELSE IF action_type = "analyze_sentiment"
  THEN LET news_to_analyze == NewsToAnalyze(data) IN
       IF news_to_analyze # <<>>
       THEN Body(FALSE, "sentiment",
                 analyze_multiple_news(FirstN(news_to_analyze, 3), env.sentiments),
                 <<"analysed sentiment">>,
                 [k \in 1..Len(FirstN(news_to_analyze, 3)) |->
                    <<"analyze_market_sentiment", news_to_analyze[k].full_text>>])
       ELSE Body(FALSE, "none", <<>>, <<>>, <<>>)
  ELSE IF action_type = "generate_advice"
  THEN LET context == Get(params, "context", STR_general)
           advice == generate_investment_advice(data, context, env.advice)
       IN IF advice.exc
          THEN Body(TRUE, "none", <<>>, <<>>, <<>>)
          ELSE Body(FALSE, "advice", advice.ret, <<"generated advice">>,
                    << <<"openai_advice", context>> >>)
  ELSE Body(FALSE, "none", <<>>, <<>>, <<>>)

\* Iteration without the try/except of tools.py:704 and 740-741: an
\* exception of the body leaves execute_action_plan
Iteration_NoTry(res, action_type, body) ==
  IF body.exc
  THEN [results |-> res, raised |-> TRUE]
  ELSE [results |-> [actions |-> IF body.log = <<>> THEN res.actions
                                 ELSE Append(res.actions, body.log),
                     data |-> IF body.key = "none" THEN res.data
                              ELSE (body.key :> body.value) @@ res.data],
        raised |-> FALSE]

\* tools.py:704-741: the try/except around one action. An exception of the
\* body is turned into a log line and the loop goes on
Iteration(res, action_type, body) ==
  IF body.exc
  THEN [results |-> [res EXCEPT !.actions = Append(@, <<"action failed", action_type>>)],
        raised |-> FALSE]
  ELSE [results |-> [actions |-> IF body.log = <<>> THEN res.actions
                                 ELSE Append(res.actions, body.log),
                     data |-> IF body.key = "none" THEN res.data
                              ELSE (body.key :> body.value) @@ res.data],
        raised |-> FALSE]

(***************************************************************************)
(* format_intelligent_response                                             *)
(*                                                                         *)
(* A response is the sequence of its parts; a fixed sentence is one part   *)
(* named after what it says, a part with data is a tuple holding the data. *)
(***************************************************************************)

Returned(parts) == [exc |-> FALSE, ret |-> parts]

Raised == [exc |-> TRUE, ret |-> <<>>]

\* get_entity_display_name(entity)
get_entity_display_name(entity) ==
  LET hits == { k \in 1..Len(DISPLAY_NAMES) : DISPLAY_NAMES[k][1] = entity }
  IN IF hits = {} THEN entity ELSE DISPLAY_NAMES[Min(hits)][2]

\* the "current price" line shared by the templates: only for a payload
\* without error whose price is truthy
PriceSection(data) ==
  IF "price" \in DOMAIN data /\ ~HasError(data["price"]) /\ data["price"].price # 0
  THEN << <<"current price", data["price"].price>> >>
  ELSE <<>>

\* the sentiment tally shared by the templates
Mood(sentiment_data) ==
  LET bullish == Count(sentiment_data, "bullish")
      bearish == Count(sentiment_data, "bearish")
  IN IF bullish > bearish THEN "news mostly positive"
     ELSE IF bearish > bullish THEN "news mostly negative"
     ELSE "news balanced"

\* the numbered titles of the first three news items
Titles(news) == [k \in 1..Len(FirstN(news, 3)) |-> <<"news title", news[k].title>>]

\* format_price_response(entity_name, data.get("price")): with the key
\* absent, price_data.get raises AttributeError on None (main.py:429)
format_price_response(entity_name, data) ==
  IF "price" \notin DOMAIN data THEN Raised
  ELSE IF HasError(data["price"])
  THEN Returned(<< <<"could not get the price for", entity_name, data["price"].error>> >>)
  ELSE Returned(<< <<"price", entity_name, data["price"].symbol, data["price"].price>>,
                   <<"updated just now">> >>)

\* format_investment_response(entity_name, data)
format_investment_response(entity_name, data) ==
  IF "sentiment" \in DOMAIN data /\ TallyRaises(data["sentiment"]) THEN Raised
  ELSE Returned(<< <<"analysis of", entity_name>> >>
                \o PriceSection(data)
                \o (IF "sentiment" \in DOMAIN data
                    THEN << <<Mood(data["sentiment"])>> >> ELSE <<>>)
                \o (IF "advice" \in DOMAIN data
                    THEN << <<"advice", data["advice"]>> >> ELSE <<>>))

\* format_news_response giving up when the price payload carries an error
format_news_response_PriceRequired(entity_name, data) ==
  IF "price" \in DOMAIN data /\ HasError(data["price"])
  THEN Returned(<< <<"news about", entity_name>> >>)
  ELSE LET news == Get(data, "targeted_news", <<>>) IN
       Returned(<< <<"news about", entity_name>> >>
                \o PriceSection(data)
                \o (IF news # <<>>
                    THEN << <<"latest news", Len(news)>> >> \o Titles(news)
                    ELSE << <<"no current news found">> >>))

\* format_news_response(entity_name, data)
format_news_response(entity_name, data) ==
  LET news == Get(data, "targeted_news", <<>>) IN
  Returned(<< <<"news about", entity_name>> >>
           \o PriceSection(data)
           \o (IF news # <<>>
               THEN << <<"latest news", Len(news)>> >> \o Titles(news)
               ELSE << <<"no current news found">> >>))

\* format_general_asset_response(entity_name, data)
format_general_asset_response(entity_name, data) ==
  LET news == Get(data, "targeted_news", <<>>) IN
  Returned(<< <<"asset", entity_name>> >>
           \o PriceSection(data)
           \o (IF news # <<>> THEN << <<"latest news title", news[1].title>> >> ELSE <<>>))

\* format_market_overview_response(data)
format_market_overview_response(data) ==
  IF "sentiment" \notin DOMAIN data THEN Returned(<< <<"market situation">> >>)
  ELSE IF TallyRaises(data["sentiment"]) THEN Raised
  ELSE LET news == Get(data, "general_news", <<>>) IN
       Returned(<< <<"market situation">>,
                   <<Mood(data["sentiment"]), Len(data["sentiment"])>> >>
                \o (IF news # <<>> THEN << <<"key news">> >> \o Titles(news) ELSE <<>>))

\* format_general_investment_response(data): the advice as it is, or the
\* fixed general advice, which ends with the disclaimer
format_general_investment_response(data) ==
  IF "advice" \in DOMAIN data THEN Returned(<< <<"advice", data["advice"]>> >>)
  ELSE Returned(<< <<"general investment advice">>, <<"disclaimer">> >>)

\* main.py:405
DEFAULT_RESPONSE == << <<"processed your request but found no specific data">> >>

\* handle_fallback_response(user_input, entity_info): the out-of-domain
\* clarification for a request that is not financial
OUT_OF_DOMAIN_MESSAGE == << <<"your request does not seem to be about finance">> >>

handle_fallback_response(text, info) ==
  IF ~info.is_financial THEN OUT_OF_DOMAIN_MESSAGE
  ELSE << <<"could not tell what you want to know about", info.entity>> >>

\* main.py:376-405: the branch of format_intelligent_response
FormatBranch(text, info) ==
  LET user_lower == lower(text) IN
  IF info.is_financial /\ Truthy(info.entity)
  THEN IF AnyWordIn(FMT_PRICE_WORDS, user_lower) THEN "price"
       ELSE IF AnyWordIn(FMT_INVEST_WORDS, user_lower) THEN "investment"
       ELSE IF AnyWordIn(FMT_SITUATION_WORDS, user_lower) THEN "news"
       ELSE "general_asset"
  ELSE IF AnyWordIn(FMT_MARKET_WORDS, user_lower) THEN "market_overview"
  ELSE IF AnyWordIn(FMT_GENERAL_INVEST_WORDS, user_lower) THEN "general_investment"
  ELSE "fallback"

\* format_intelligent_response(user_input, entity_info, execution_results)
format_intelligent_response(text, info, execution_results) ==
  LET data == execution_results.data
      branch == FormatBranch(text, info)
      entity_name == get_entity_display_name(info.entity)
  IN
  IF branch = "price" THEN format_price_response(entity_name, data)
  ELSE IF branch = "investment" THEN format_investment_response(entity_name, data)
  ELSE IF branch = "news" THEN format_news_response(entity_name, data)
  ELSE IF branch = "general_asset" THEN format_general_asset_response(entity_name, data)
  ELSE IF branch = "market_overview" THEN format_market_overview_response(data)
  ELSE IF branch = "general_investment" THEN format_general_investment_response(data)
  ELSE Returned(DEFAULT_RESPONSE)

(***************************************************************************)
(* The pipeline                                                            *)
(***************************************************************************)

\* " ".join(words)
RECURSIVE Join(_)
Join(words) ==
  IF Len(words) = 0 THEN <<>>
  ELSE IF Len(words) = 1 THEN words[1]
  ELSE words[1] \o <<32>> \o Join(Tail(words))

\* the utterances of the model: up to MaxFragments phrases
Utterances ==
  { Join(ws) : ws \in UNION { [1..n -> Fragments] : n \in 0..MaxFragments } }

\* the EntityInfo values a caller may hand to plan_actions directly
CallerEntityInfos == { r.value : r \in { x \in LLMReplies : x.kind = "json" } }

NoPlan == [actions |-> <<>>, reasoning |-> <<>>]

EmptyResults == [actions |-> <<>>, data |-> <<>>]

Init ==
  /\ pc = "start"
  /\ user_input \in Utterances
  /\ entity_info = EntityInfo(FALSE, None, None, 0)
  /\ ei_from = "nobody"
  /\ calls = <<>>
  /\ action_plan = NoPlan
  /\ i = 0
  /\ results = EmptyResults
  /\ attempted = <<>>
  /\ writes = <<>>
  /\ raised = "nothing"
  /\ response = <<>>
  /\ llm_reply = NoReply
  /\ call = NoCall
  /\ batch = NoBatch
  /\ agent = NoAgent
  /\ provider_call = NoProviderCall
  /\ server = NoServer

\* entity_info = await detect_entity(user_input)
DetectEntity ==
  /\ UNCHANGED other_vars
  /\ pc = "start"
  /\ \E reply \in LLMReplies :
       LET r == detect_entity(user_input, reply) IN
       /\ entity_info' = r.ret
       /\ calls' = calls \o r.calls
       /\ llm_reply' = r.asked
       /\ raised' = IF r.exc THEN "detect_entity" ELSE raised
       /\ pc' = IF r.exc THEN "aborted" ELSE "detected"
  /\ ei_from' = "detect_entity"
  /\ UNCHANGED <<user_input, action_plan, i, results, attempted, writes, response>>

\* a caller that brings its own EntityInfo for the utterance
SupplyEntityInfo ==
  /\ UNCHANGED other_vars
  /\ UNCHANGED llm_reply
  /\ pc = "start"
  /\ entity_info' \in CallerEntityInfos
  /\ ei_from' = "caller"
  /\ pc' = "detected"
  /\ UNCHANGED <<user_input, calls, action_plan, i, results, attempted, writes, raised, response>>

\* action_plan = await plan_actions(user_input, entity_info)
PlanActions ==
  /\ UNCHANGED other_vars
  /\ UNCHANGED llm_reply
  /\ pc = "detected"
  /\ action_plan' = plan_actions(user_input, entity_info)
  /\ pc' = "planned"
  /\ UNCHANGED <<user_input, entity_info, ei_from, calls, i, results, attempted, writes,
                 raised, response>>

\* execute_action_plan: one iteration of `for action in action_plan["actions"]`
ExecuteAction ==
  /\ UNCHANGED other_vars
  /\ UNCHANGED llm_reply
  /\ pc = "planned"
  /\ i < Len(action_plan.actions)
  /\ LET action == action_plan.actions[i + 1] IN
     \E env \in Envs(action, results.data) :
       LET body == ActionBody(action, results.data, env)
           it == Iteration(results, action.action, body)
       IN
       /\ results' = it.results
       /\ raised' = IF it.raised THEN "execute_action_plan" ELSE raised
       /\ pc' = IF it.raised THEN "aborted" ELSE pc
       /\ calls' = calls \o body.calls
       /\ attempted' = Append(attempted, action.action)
       /\ writes' = IF ~body.exc /\ body.key # "none"
                    THEN Append(writes, <<body.key, i + 1>>) ELSE writes
  /\ i' = i + 1
  /\ UNCHANGED <<user_input, entity_info, ei_from, action_plan, response>>

\* execute_action_plan: `return results` after the last action
ExecuteReturn ==
  /\ UNCHANGED other_vars
  /\ UNCHANGED llm_reply
  /\ pc = "planned"
  /\ i = Len(action_plan.actions)
  /\ pc' = "executed"
  /\ UNCHANGED <<user_input, entity_info, ei_from, calls, action_plan, i, results,
                 attempted, writes, raised, response>>

\* response = await format_intelligent_response(user_input, entity_info, results)
FormatResponse ==
  /\ UNCHANGED other_vars
  /\ UNCHANGED llm_reply
  /\ pc = "executed"
  /\ LET r == format_intelligent_response(user_input, entity_info, results) IN
     /\ response' = r.ret
     /\ raised' = IF r.exc THEN "format_intelligent_response" ELSE raised
     /\ pc' = IF r.exc THEN "aborted" ELSE "done"
  /\ UNCHANGED <<user_input, entity_info, ei_from, calls, action_plan, i, results,
                 attempted, writes>>

Next ==
  \/ DetectEntity
  \/ SupplyEntityInfo
  \/ PlanActions
  \/ ExecuteAction
  \/ ExecuteReturn
  \/ FormatResponse

Spec == Init /\ [][Next]_vars

\* the pipeline at rest, while another function is followed
PipelineIdle ==
  /\ pc = "idle"
  /\ user_input = <<>>
  /\ entity_info = EntityInfo(FALSE, None, None, 0)
  /\ ei_from = "nobody"
  /\ calls = <<>>
  /\ action_plan = NoPlan
  /\ i = 0
  /\ results = EmptyResults
  /\ attempted = <<>>
  /\ writes = <<>>
  /\ raised = "nothing"
  /\ response = <<>>
  /\ llm_reply = NoReply

(***************************************************************************)
(* The calls into the text-generation service and their retries            *)
(***************************************************************************)

\* tools.py:222
valid_intents ==
  <<
    <<97, 110, 97, 108, 121, 122, 101, 95, 110, 101, 119, 115>>,  \* "analyze_news"
    <<103, 101, 116, 95, 112, 114, 105, 99, 101>>,  \* "get_price"
    <<105, 110, 118, 101, 115, 116, 109, 101, 110, 116, 95, 97, 100, 118, 105, 99, 101>>,  \* "investment_advice"
    <<103, 101, 110, 101, 114, 97, 108, 95, 99, 104, 97, 116>>,  \* "general_chat"
    <<102, 97, 108, 108, 98, 97, 99, 107>>  \* "fallback"
  >>

STR_fallback == <<102, 97, 108, 108, 98, 97, 99, 107>>  \* "fallback"

\* message.content values the model may answer the intent request with
IntentContents ==
  {
    <<103, 101, 116, 95, 112, 114, 105, 99, 101>>,  \* "get_price"
    <<32, 103, 101, 116, 95, 112, 114, 105, 99, 101, 10>>,  \* " get_price\n"
    <<71, 69, 84, 95, 80, 82, 73, 67, 69>>,  \* "GET_PRICE"
    <<65, 110, 97, 108, 121, 122, 101, 95, 78, 101, 119, 115>>,  \* "Analyze_News"
    <<105, 110, 118, 101, 115, 116, 109, 101, 110, 116, 95, 97, 100, 118, 105, 99, 101, 9>>,  \* "investment_advice\t"
    <<103, 101, 110, 101, 114, 97, 108, 95, 99, 104, 97, 116>>,  \* "general_chat"
    <<102, 97, 108, 108, 98, 97, 99, 107>>,  \* "fallback"
    <<103, 101, 116, 32, 112, 114, 105, 99, 101>>,  \* "get price"
    <<103, 101, 116, 95, 112, 114, 105, 99, 101, 46>>,  \* "get_price."
    <<>>,  \* ""
    <<32, 32>>,  \* "  "
    <<105, 110, 116, 101, 110, 116, 58, 32, 103, 101, 116, 95, 112, 114, 105, 99, 101>>,  \* "intent: get_price"
    <<117, 110, 107, 110, 111, 119, 110>>  \* "unknown"
  }

\* str.strip(): whitespace is taken off both ends
IsSpace(c) == c \in {9, 10, 11, 12, 13, 32}

RECURSIVE lstrip(_)
lstrip(s) == IF Len(s) > 0 /\ IsSpace(s[1]) THEN lstrip(Tail(s)) ELSE s

RECURSIVE rstrip(_)
rstrip(s) ==
  IF Len(s) > 0 /\ IsSpace(s[Len(s)]) THEN rstrip(SubSeq(s, 1, Len(s) - 1)) ELSE s

strip(s) == rstrip(lstrip(s))

\* the functions that call the text-generation service
LLM_FUNCTIONS ==
  {"analyze_intent", "detect_entity", "analyze_market_sentiment", "generate_investment_advice"}

\* max_tries of the backoff.on_exception decorator around call_openai;
\* generate_investment_advice (tools.py:815-834) has no decorator and makes
\* its one request directly
max_tries(fn) == IF fn = "generate_investment_advice" THEN 1 ELSE 3

\* what one request can end in other than a reply: the exceptions the
\* decorator retries on, and any other exception (no API key, a reply
\* without content, ...)
RetriedExceptions == {"APIError", "RateLimitError", "TimeoutError"}

AttemptExceptions == RetriedExceptions \cup {"OtherError"}

\* the contents a reply to fn's request may hold
Contents(fn) ==
  IF fn = "analyze_intent" THEN IntentContents
  ELSE IF fn = "generate_investment_advice" THEN {"advice text"}
  ELSE {"json", "not json"}

\* tools.py:221-226 with the membership test left out
ValidateIntent_Unchecked(intent) == intent

\* tools.py:221-226: the label if it is one of valid_intents, else fallback
ValidateIntent(intent) ==
  IF InList(intent, valid_intents) THEN intent ELSE STR_fallback

\* what fn returns when call_openai returned content
OnContent(fn, content) ==
  IF fn = "analyze_intent"
  THEN [exc |-> FALSE, ret |-> ValidateIntent(lower(strip(content)))]
  ELSE IF fn = "detect_entity"
  THEN [exc |-> FALSE,
        ret |-> IF content = "json" THEN "json.loads(result)"
                ELSE "not financial, confidence 0"]
  ELSE [exc |-> FALSE, ret |-> content]

\* what fn does when an exception leaves call_openai (or, in
\* generate_investment_advice, the request): analyze_intent and detect_entity
\* return their fallback, analyze_market_sentiment has no handler,
\* generate_investment_advice returns the error text
OnException(fn, e) ==
  IF fn = "analyze_intent" THEN [exc |-> FALSE, ret |-> STR_fallback]
  ELSE IF fn = "detect_entity" THEN [exc |-> FALSE, ret |-> "not financial, confidence 0"]
  ELSE IF fn = "analyze_market_sentiment" THEN [exc |-> TRUE, ret |-> e]
  ELSE [exc |-> FALSE, ret |-> <<"advice generation failed", e>>]

NewCall(fn) ==
  [fn |-> fn, state |-> "new", tries |-> 0, errors |-> <<>>, content |-> None,
   exc |-> FALSE, ret |-> None]

InitCall ==
  /\ PipelineIdle
  /\ call \in {NewCall(fn) : fn \in LLM_FUNCTIONS}
  /\ batch = NoBatch
  /\ agent = NoAgent
  /\ provider_call = NoProviderCall
  /\ server = NoServer

\* the function is called and sends its first request
CallStart ==
  /\ call.state = "new"
  /\ call' = [call EXCEPT !.state = "in_flight", !.tries = 1]
  /\ UNCHANGED <<pipeline_vars, batch, agent, provider_call, server>>

\* the request is answered
CallReplied ==
  /\ call.state = "in_flight"
  /\ \E content \in Contents(call.fn) :
       LET r == OnContent(call.fn, content) IN
       call' = [call EXCEPT !.state = "done", !.content = content,
                            !.exc = r.exc, !.ret = r.ret]
  /\ UNCHANGED <<pipeline_vars, batch, agent, provider_call, server>>

\* the request raises: backoff waits and tries again for an exception of
\* its list while tries are left, otherwise the exception leaves call_openai
CallRaised ==
  /\ call.state = "in_flight"
  /\ \E e \in AttemptExceptions :
       IF e \in RetriedExceptions /\ call.tries < max_tries(call.fn)
       THEN call' = [call EXCEPT !.state = "backoff", !.errors = Append(@, e)]
       ELSE LET r == OnException(call.fn, e) IN
            call' = [call EXCEPT !.state = "done", !.errors = Append(@, e),
                                 !.exc = r.exc, !.ret = r.ret]
  /\ UNCHANGED <<pipeline_vars, batch, agent, provider_call, server>>

\* the exponential wait is over, the request is sent again
CallRetry ==
  /\ call.state = "backoff"
  /\ call' = [call EXCEPT !.state = "in_flight", !.tries = @ + 1]
  /\ UNCHANGED <<pipeline_vars, batch, agent, provider_call, server>>

NextCall ==
  \/ CallStart
  \/ CallReplied
  \/ CallRaised
  \/ CallRetry

SpecCall == InitCall /\ [][NextCall]_vars

(***************************************************************************)
(* analyze_multiple_news: the tasks of asyncio.gather and the semaphore    *)
(***************************************************************************)

\* the longest news list of the model
MaxItems == 6

\* tools.py:82: asyncio.Semaphore(5)
SEMAPHORE_VALUE == 5

\* analyze_multiple_news(news_list) is called with a list of n texts:
\* tasks[k] is where the coroutine analyze_single(news_list[k]) stands,
\* results[k] what it ended in, value and waiters are the semaphore's
\* counter and its queue of blocked acquirers
NewBatch(n) ==
  [pc |-> "called",
   tasks |-> [k \in 1..n |-> "created"],
   results |-> [k \in 1..n |-> "pending"],
   value |-> SEMAPHORE_VALUE,
   waiters |-> <<>>,
   processed_results |-> <<>>]

\* the tasks whose request to the sentiment generator is in flight
InFlight(b) == { k \in 1..Len(b.tasks) : b.tasks[k] = "in_flight" }

\* Semaphore.locked() with the test of the counter left out
locked_NeverLocked(b) == FALSE

\* Semaphore.locked(): no permit left, or somebody is already queued
locked(b) == b.value = 0 \/ b.waiters # <<>>

\* `async with semaphore` in task k: the permit is taken at once if the
\* semaphore is not locked, else the task queues up
acquire(b, k) ==
  IF ~locked(b)
  THEN [b EXCEPT !.value = @ - 1, !.tasks[k] = "in_flight"]
  ELSE [b EXCEPT !.waiters = Append(@, k), !.tasks[k] = "waiting"]

\* leaving `async with semaphore`: the permit goes back and, if a task is
\* queued, straight on to the first of the queue, which goes on to its request
release(b) ==
  IF b.waiters = <<>>
  THEN [b EXCEPT !.value = @ + 1]
  ELSE [b EXCEPT !.waiters = Tail(@), !.tasks[Head(b.waiters)] = "in_flight"]

\* asyncio.gather without return_exceptions=True: the first exception of a
\* task leaves gather while the other tasks are still running
gather_done_FailFast(b) ==
  \/ \A k \in 1..Len(b.tasks) : b.tasks[k] = "done"
  \/ \E k \in 1..Len(b.tasks) : b.results[k] = "exception"

\* asyncio.gather(*tasks, return_exceptions=True) is over when every task is
gather_done(b) == \A k \in 1..Len(b.tasks) : b.tasks[k] = "done"

InitBatch ==
  /\ PipelineIdle
  /\ call = NoCall
  /\ batch \in {NewBatch(n) : n \in 0..MaxItems}
  /\ agent = NoAgent
  /\ provider_call = NoProviderCall
  /\ server = NoServer

\* tools.py:82-89: the semaphore and the tasks are made, gather is awaited
BatchGather ==
  /\ batch.pc = "called"
  /\ batch' = [batch EXCEPT !.pc = "gathering"]
  /\ UNCHANGED <<pipeline_vars, call, agent, provider_call, server>>

\* the event loop starts the tasks in the order gather made them; each runs
\* up to its first suspension
TaskStart ==
  /\ batch.pc = "gathering"
  /\ \E k \in 1..Len(batch.tasks) :
       /\ batch.tasks[k] = "created"
       /\ \A j \in 1..(k - 1) : batch.tasks[j] # "created"
       /\ batch' = acquire(batch, k)
  /\ UNCHANGED <<pipeline_vars, call, agent, provider_call, server>>

\* analyze_market_sentiment of task k returns or raises (after its
\* retries); the task leaves the `async with` block
TaskFinish ==
  /\ batch.pc = "gathering"
  /\ \E k \in InFlight(batch) : \E outcome \in SentimentOutcomes :
       batch' = release([batch EXCEPT !.tasks[k] = "done", !.results[k] = outcome])
  /\ UNCHANGED <<pipeline_vars, call, agent, provider_call, server>>

\* tools.py:91-111: gather has returned, the results are processed in order
BatchReturn ==
  /\ batch.pc = "gathering"
  /\ gather_done(batch)
  /\ batch' = [batch EXCEPT
                 !.pc = "returned",
                 !.processed_results = analyze_multiple_news(batch.tasks, batch.results)]
  /\ UNCHANGED <<pipeline_vars, call, agent, provider_call, server>>

NextBatch ==
  \/ BatchGather
  \/ TaskStart
  \/ TaskFinish
  \/ BatchReturn

SpecBatch == InitBatch /\ [][NextBatch]_vars

(***************************************************************************)
(* run_agent (POST /run)                                                   *)
(*                                                                         *)
(* A text is a record of what it says, its length, and the position of the *)
(* last line break among its first 3500 characters (-1 if there is none).  *)
(***************************************************************************)

\* the longest message list of the model
MaxMessages == 2

\* main.py:115
MAX_ITERATIONS == 5

\* main.py:280 and 336
MAX_LENGTH == 3500

\* len("\n\n💬 [Відповідь обрізана для Telegram]") (main.py:292)
CUT_NOTE_LENGTH == 37

Text(says, len) == [says |-> says, len |-> len, last_newline |-> -1]

\* main.py:308, 325, 329, 333, 351
PLEASE_WRITE == Text("please write your request", 31)
NO_OUTPUT == Text("could not get an answer from the agent", 41)
TRY_AGAIN_LATER == Text("the request takes longer than expected, try again later", 91)
ANALYSIS_ERROR == Text("sorry, an error occurred during the analysis", 68)
TECHNICAL_ERROR == Text("sorry, a technical error occurred", 52)

\* a value of result["output"] that is no str
NOT_A_TEXT == Text("not a text", 0)

\* ChatRequest.messages: lists of message contents, empty or not
Requests == UNION { [1..n -> {"", "question"}] : n \in 0..MaxMessages }

\* what agent.invoke can return: a dict with an output text, of a length
\* around the Telegram limit and with or without a late line break, a dict
\* whose output is not a text, or a dict without "output"
AgentResults ==
  { [output |-> [says |-> "agent output", len |-> l, last_newline |-> p]] :
      l \in {0, 100, 3500, 3501, 5000}, p \in {-1, 2450, 2451, 3400} }
  \cup { [output |-> NOT_A_TEXT] }
  \cup { [intermediate_steps |-> <<>>] }

\* truncate_response(response, max_length), text being the response
truncate_response(text, max_length) ==
  IF text.len <= max_length THEN text
  ELSE LET cut == IF text.last_newline * 10 > max_length * 7
                  THEN text.last_newline ELSE max_length
       IN [says |-> "agent output, cut for Telegram",
           len |-> cut + CUT_NOTE_LENGTH, last_newline |-> cut + 1]

\* main.py:335-344: the reply that carries response_content
Reply(response_content) ==
  [role |-> "assistant",
   content |-> IF response_content.len > MAX_LENGTH
               THEN truncate_response(response_content, MAX_LENGTH)
               ELSE response_content]

\* the timeout handler answering with what the agent has got so far
OnTimeout_Partial(steps) == Text("partial result", 100 * steps)

\* main.py:328-329: the handler of asyncio.TimeoutError
OnTimeout(steps) == TRY_AGAIN_LATER

NewAgent(messages) ==
  [pc |-> "called", messages |-> messages, user_input |-> "", invoked |-> FALSE,
   steps |-> 0, ended |-> "not yet", raised |-> FALSE, ret |-> <<>>]

InitAgent ==
  /\ PipelineIdle
  /\ call = NoCall
  /\ batch = NoBatch
  /\ agent \in {NewAgent(m) : m \in Requests}
  /\ provider_call = NoProviderCall
  /\ server = NoServer

\* main.py:302-311: the last message's content; an empty one is answered at once
ReadInput ==
  /\ agent.pc = "called"
  /\ LET text == IF agent.messages # <<>> THEN agent.messages[Len(agent.messages)] ELSE ""
     IN IF text = ""
        THEN agent' = [agent EXCEPT !.pc = "returned", !.user_input = text,
                                    !.ended = "empty input",
                                    !.ret = [role |-> "assistant", content |-> PLEASE_WRITE]]
        ELSE agent' = [agent EXCEPT !.pc = "got_input", !.user_input = text]
  /\ UNCHANGED <<pipeline_vars, call, batch, provider_call, server>>

\* run_agent without the outer try/except of main.py:300 and 346-353
OnCriticalError_NoTry(a) ==
  [a EXCEPT !.pc = "raised", !.ended = "critical error", !.raised = TRUE]

\* main.py:346-353: an exception outside the inner try is answered with the
\* technical-error message
OnCriticalError(a) ==
  [a EXCEPT !.pc = "returned", !.ended = "critical error",
            !.ret = [role |-> "assistant", content |-> TECHNICAL_ERROR]]

\* main.py:315: get_financial_agent() returns the executor, or building it raises
GetAgent ==
  /\ agent.pc = "got_input"
  /\ \/ agent' = [agent EXCEPT !.pc = "invoking", !.invoked = TRUE]
     \/ agent' = OnCriticalError(agent)
  /\ UNCHANGED <<pipeline_vars, call, batch, provider_call, server>>

\* the executor, running in its thread, finishes one more iteration
AgentStep ==
  /\ agent.pc = "invoking"
  /\ agent.steps < MAX_ITERATIONS
  /\ agent' = [agent EXCEPT !.steps = @ + 1]
  /\ UNCHANGED <<pipeline_vars, call, batch, provider_call, server>>

\* main.py:319-326: agent.invoke returns before the 60 seconds are over.
\* An output that is not a text makes response_content[:100] raise, which
\* the handler of main.py:331-333 answers
AgentReturns ==
  /\ agent.pc = "invoking"
  /\ \E result \in AgentResults :
       LET response_content == Get(result, "output", NO_OUTPUT) IN
       IF response_content = NOT_A_TEXT
       THEN agent' = [agent EXCEPT !.pc = "returned", !.ended = "exception",
                                   !.ret = Reply(ANALYSIS_ERROR)]
       ELSE agent' = [agent EXCEPT !.pc = "returned", !.ended = "result",
                                   !.ret = Reply(response_content)]
  /\ UNCHANGED <<pipeline_vars, call, batch, provider_call, server>>

\* main.py:331-333: agent.invoke raises
AgentRaises ==
  /\ agent.pc = "invoking"
  /\ agent' = [agent EXCEPT !.pc = "returned", !.ended = "exception",
                            !.ret = Reply(ANALYSIS_ERROR)]
  /\ UNCHANGED <<pipeline_vars, call, batch, provider_call, server>>

\* main.py:328-329: the 60 seconds of asyncio.wait_for are over before
\* agent.invoke has returned
AgentTimeout ==
  /\ agent.pc = "invoking"
  /\ agent' = [agent EXCEPT !.pc = "returned", !.ended = "timeout",
                            !.ret = Reply(OnTimeout(agent.steps))]
  /\ UNCHANGED <<pipeline_vars, call, batch, provider_call, server>>

NextAgent ==
  \/ ReadInput
  \/ GetAgent
  \/ AgentStep
  \/ AgentReturns
  \/ AgentRaises
  \/ AgentTimeout

SpecAgent == InitAgent /\ [][NextAgent]_vars

(***************************************************************************)
(* The provider functions: get_stock_price, get_crypto_price,              *)
(* get_forex_price, get_news_targeted, fetch_newsdata_io_news,             *)
(* fetch_finage_news                                                       *)
(***************************************************************************)

\* the most articles a provider answers with
MaxArticles == 6

\* limit of get_news_targeted, of the two fetchers, and of get_news
TARGETED_LIMIT == 5
FETCH_LIMIT == 3
ALL_NEWS_LIMIT == 6

\* the credentials read with os.getenv
KEYS == {"TWELVE_DATA_API_KEY", "FINAGE_API_KEY", "NEWSDATA_API_KEY"}

PRICE_FUNCTIONS == {"get_stock_price", "get_crypto_price", "get_forex_price"}

NEWS_FUNCTIONS == {"get_news_targeted", "fetch_newsdata_io_news", "fetch_finage_news"}

PROVIDER_FUNCTIONS == PRICE_FUNCTIONS \cup NEWS_FUNCTIONS

\* the credential a provider function reads
KeyOf(fn) ==
  IF fn \in {"get_stock_price", "get_crypto_price"} THEN "TWELVE_DATA_API_KEY"
  ELSE IF fn \in {"get_forex_price", "fetch_finage_news"} THEN "FINAGE_API_KEY"
  ELSE "NEWSDATA_API_KEY"

\* the host a provider function sends its request to
HostOf(fn) ==
  IF fn \in {"get_stock_price", "get_crypto_price"} THEN "api.twelvedata.com"
  ELSE IF fn \in {"get_forex_price", "fetch_finage_news"} THEN "api.finage.co.uk"
  ELSE "newsdata.io"

\* the slice applied to the articles of the body
LimitOf(fn) == IF fn = "get_news_targeted" THEN TARGETED_LIMIT ELSE FETCH_LIMIT

\* what comes back for a request that was sent: a JSON body with n usable
\* entries (for a price request, n > 0 stands for a body with a price), an
\* HTTP error status, a timeout, or a body that is not the JSON expected
ProviderAnswers ==
  {[kind |-> "body", n |-> n] : n \in {0, 1, MaxArticles}}
  \cup {[kind |-> k, n |-> 0] : k \in {"http_error", "timeout", "malformed"}}

\* the provider function without its check of the credential
HasKey_Unchecked(fn, environ) == TRUE

\* `api_key = os.getenv(...)`, `if not api_key`
HasKey(fn, environ) == KeyOf(fn) \in environ

\* the return value when the provider cannot be used: the error payload of
\* a price function, the empty list of a news function
Unavailable(fn) ==
  IF fn \in PRICE_FUNCTIONS THEN Payload("error", <<>>) ELSE Payload("news", <<>>)

\* the number of news items built from an answer
ItemCount(fn, answer) ==
  IF answer.kind = "body"
  THEN IF answer.n < LimitOf(fn) THEN answer.n ELSE LimitOf(fn)
  ELSE 0

\* the return value for a body
OnBody(fn, answer) ==
  IF fn \in PRICE_FUNCTIONS
  THEN IF answer.n > 0 THEN Payload("price", <<>>) ELSE Payload("error", <<>>)
  ELSE Payload("news", [k \in 1..ItemCount(fn, answer) |-> <<fn, k>>])

\* OnAnswer without the try/except around the request: the exception of
\* httpx or of response.json() leaves the function
OnAnswer_NoTry(fn, answer) ==
  IF answer.kind = "body"
  THEN [exc |-> FALSE, ret |-> OnBody(fn, answer)]
  ELSE [exc |-> TRUE, ret |-> Payload("none", <<>>)]

\* what the function does with an answer: every exception of the request is
\* caught and turned into the error payload or the empty list
OnAnswer(fn, answer) ==
  IF answer.kind = "body"
  THEN [exc |-> FALSE, ret |-> OnBody(fn, answer)]
  ELSE [exc |-> FALSE, ret |-> Unavailable(fn)]

\* the lengths of the lists get_news_targeted can return
TargetedCounts ==
  {IF HasKey("get_news_targeted", e)
   THEN ItemCount("get_news_targeted", a) ELSE 0 : e \in SUBSET KEYS, a \in ProviderAnswers}

\* the lengths of the lists a fetcher of get_news can return
FetchCounts(fn) ==
  {IF HasKey(fn, e) THEN ItemCount(fn, a) ELSE 0 : e \in SUBSET KEYS, a \in ProviderAnswers}

\* main.py:246-257: all_news[:6] of the two fetchers' lists
AllNewsCount(a, b) == IF a + b < ALL_NEWS_LIMIT THEN a + b ELSE ALL_NEWS_LIMIT

\* the lengths of the lists get_news can return
GeneralCounts ==
  {AllNewsCount(a, b) : a \in FetchCounts("fetch_newsdata_io_news"),
                        b \in FetchCounts("fetch_finage_news")}

NewProviderCall(fn, environ) ==
  [fn |-> fn, pc |-> "called", environ |-> environ, sent |-> <<>>,
   answer |-> [kind |-> "none", n |-> 0], ret |-> Payload("none", <<>>), raised |-> FALSE]

InitProvider ==
  /\ PipelineIdle
  /\ call = NoCall
  /\ batch = NoBatch
  /\ agent = NoAgent
  /\ provider_call \in {NewProviderCall(fn, e) : fn \in PROVIDER_FUNCTIONS, e \in SUBSET KEYS}
  /\ server = NoServer

\* the function up to its first await: the credential is read and, if it is
\* there, the request is sent
ProviderEnter ==
  /\ provider_call.pc = "called"
  /\ provider_call' =
       IF HasKey(provider_call.fn, provider_call.environ)
       THEN [provider_call EXCEPT !.pc = "waiting", !.sent = <<HostOf(provider_call.fn)>>]
       ELSE [provider_call EXCEPT !.pc = "returned", !.ret = Unavailable(provider_call.fn)]
  /\ UNCHANGED <<pipeline_vars, call, batch, agent, server>>

\* the request ends and the function returns
ProviderAnswer ==
  /\ provider_call.pc = "waiting"
  /\ \E answer \in ProviderAnswers :
       LET r == OnAnswer(provider_call.fn, answer) IN
       provider_call' = [provider_call EXCEPT !.pc = "returned", !.answer = answer,
                                              !.ret = r.ret, !.raised = r.exc]
  /\ UNCHANGED <<pipeline_vars, call, batch, agent, server>>

NextProvider ==
  \/ ProviderEnter
  \/ ProviderAnswer

SpecProvider == InitProvider /\ [][NextProvider]_vars

(***************************************************************************)
(* get_news and news_cache                                                 *)
(***************************************************************************)

\* the number of get_news requests followed, and the last clock reading
MaxRequests == 2
MaxClock == 400

\* main.py:51, seconds
CACHE_DURATION == 300

FETCHERS == <<"fetch_newsdata_io_news", "fetch_finage_news">>

\* a get_news request that has not arrived yet
NewRequest ==
  [pc |-> "idle", current_time |-> 0, called |-> <<>>, served |-> FALSE,
   entry_written_at |-> 0, ret |-> <<>>]

\* main.py:49-50 (a timestamp of None is 0 here: the test of main.py:232
\* takes both for false); the clock starts after the epoch
NewServer ==
  [now |-> 100, news_cache |-> [data |-> <<>>, timestamp |-> 0],
   reqs |-> [r \in 1..MaxRequests |-> NewRequest], writers |-> <<>>, written_at |-> 0]

\* the cache test without the comparison of the age
Fresh_NoAgeTest(cache, current_time) ==
  /\ cache.timestamp # 0
  /\ cache.data # <<>>

\* main.py:232-234
Fresh(cache, current_time) ==
  /\ cache.timestamp # 0
  /\ current_time - cache.timestamp < CACHE_DURATION
  /\ cache.data # <<>>

\* the cache entry stamped with the clock reading at the write
Stamp_WriteTime(req, now) == now

\* main.py:260-263: "timestamp": current_time, the reading of main.py:231
Stamp(req, now) == req.current_time

\* the items a fetcher returned to request r
FetchedItems(r, fn, n) == [k \in 1..n |-> <<r, fn, k>>]

InitNews ==
  /\ PipelineIdle
  /\ call = NoCall
  /\ batch = NoBatch
  /\ agent = NoAgent
  /\ provider_call = NoProviderCall
  /\ server = NewServer

\* time passes
Tick ==
  /\ server.now + 100 <= MaxClock
  /\ server' = [server EXCEPT !.now = @ + 100]
  /\ UNCHANGED <<pipeline_vars, call, batch, agent, provider_call>>

\* main.py:228-242: request r reads the clock and the cache, and either
\* returns the cached list or starts the two fetchers and awaits them
GetNewsEnter(r) ==
  /\ server.reqs[r].pc = "idle"
  /\ server' =
       IF Fresh(server.news_cache, server.now)
       THEN [server EXCEPT !.reqs[r] =
               [pc |-> "returned", current_time |-> server.now, called |-> <<>>,
                served |-> TRUE, entry_written_at |-> server.written_at,
                ret |-> server.news_cache.data]]
       ELSE [server EXCEPT !.reqs[r] =
               [pc |-> "fetching", current_time |-> server.now, called |-> FETCHERS,
                served |-> FALSE, entry_written_at |-> 0, ret |-> <<>>]]
  /\ UNCHANGED <<pipeline_vars, call, batch, agent, provider_call>>

\* main.py:243-265: gather is over; the two lists are joined and cut, the
\* cache is replaced by one assignment and the list is returned
GetNewsRefresh(r) ==
  /\ server.reqs[r].pc = "fetching"
  /\ \E a \in FetchCounts(FETCHERS[1]), b \in FetchCounts(FETCHERS[2]) :
       LET all_news == FirstN(FetchedItems(r, FETCHERS[1], a)
                              \o FetchedItems(r, FETCHERS[2], b), ALL_NEWS_LIMIT)
       IN server' = [server EXCEPT
            !.news_cache = [data |-> all_news,
                            timestamp |-> Stamp(server.reqs[r], server.now)],
            !.reqs[r].pc = "returned",
            !.reqs[r].ret = all_news,
            !.writers = Append(@, r),
            !.written_at = server.now]
  /\ UNCHANGED <<pipeline_vars, call, batch, agent, provider_call>>

NextNews ==
  \/ Tick
  \/ \E r \in 1..MaxRequests : GetNewsEnter(r)
  \/ \E r \in 1..MaxRequests : GetNewsRefresh(r)

SpecNews == InitNews /\ [][NextNews]_vars

(***************************************************************************)
(* execute_action_plan on a plan its caller built                          *)
(***************************************************************************)

\* the longest plan a caller builds
MaxPlanLength == 3

\* the actions a caller's plan is made of
\* symbols of the category lists and symbols absent from them
USDJPY == <<85, 83, 68, 74, 80, 89>>
USDCHF == <<85, 83, 68, 67, 72, 70>>
XRPUSD == <<88, 82, 80, 85, 83, 68>>
EURGBP == <<69, 85, 82, 71, 66, 80>>
IBM == <<73, 66, 77>>

CallerSymbols == {AAPL, USDJPY, USDCHF, XRPUSD, EURGBP, IBM}

CallerActions ==
  {GetPrice(s) : s \in CallerSymbols}
  \cup {GetNewsTargeted(AAPL), GetNewsGeneral, AnalyzeSentiment, GenerateAdvice(STR_general)}

CallerPlans == UNION { [1..n -> CallerActions] : n \in 0..MaxPlanLength }

\* what the collaborators do during one action of a caller's plan: the news
\* lists are as long as get_news_targeted and get_news can make them
CallerEnvs(action, data) ==
  IF action.action = "get_price"
  THEN {[DefaultEnv EXCEPT !.price = o] : o \in {"ok", "error"}}
  ELSE IF action.action = "get_news_targeted"
  THEN {[DefaultEnv EXCEPT !.news = n] : n \in TargetedCounts}
  ELSE IF action.action = "get_news_general"
  THEN {[DefaultEnv EXCEPT !.news = n] : n \in {-1} \cup GeneralCounts}
  ELSE IF action.action = "analyze_sentiment"
  THEN {[DefaultEnv EXCEPT !.sentiments = s] :
          s \in [1..Len(FirstN(NewsToAnalyze(data), 3)) -> {"bullish", "exception"}]}
  ELSE {DefaultEnv}

InitExec ==
  /\ pc = "planned"
  /\ user_input = <<>>
  /\ entity_info = EntityInfo(FALSE, None, None, 0)
  /\ ei_from = "caller"
  /\ calls = <<>>
  /\ action_plan \in {[actions |-> p, reasoning |-> <<>>] : p \in CallerPlans}
  /\ i = 0
  /\ results = EmptyResults
  /\ attempted = <<>>
  /\ writes = <<>>
  /\ raised = "nothing"
  /\ response = <<>>
  /\ llm_reply = NoReply
  /\ call = NoCall
  /\ batch = NoBatch
  /\ agent = NoAgent
  /\ provider_call = NoProviderCall
  /\ server = NoServer

\* execute_action_plan: one iteration of the loop over the caller's plan
ExecuteCallerAction ==
  /\ pc = "planned"
  /\ i < Len(action_plan.actions)
  /\ LET action == action_plan.actions[i + 1] IN
     \E env \in CallerEnvs(action, results.data) :
       LET body == ActionBody(action, results.data, env)
           it == Iteration(results, action.action, body)
       IN
       /\ results' = it.results
       /\ raised' = IF it.raised THEN "execute_action_plan" ELSE raised
       /\ pc' = IF it.raised THEN "aborted" ELSE pc
       /\ calls' = calls \o body.calls
       /\ attempted' = Append(attempted, action.action)
       /\ writes' = IF ~body.exc /\ body.key # "none"
                    THEN Append(writes, <<body.key, i + 1>>) ELSE writes
  /\ i' = i + 1
  /\ UNCHANGED <<user_input, entity_info, ei_from, action_plan, response, llm_reply>>
  /\ UNCHANGED other_vars

NextExec ==
  \/ ExecuteCallerAction
  \/ ExecuteReturn

SpecExec == InitExec /\ [][NextExec]_vars

(***************************************************************************)
(* plan_actions and format_intelligent_response on the same inputs         *)
(***************************************************************************)

\* the longest utterance, in phrases, of this part of the model
MaxBranchWords == 2

\* phrases holding the keywords of the two keyword tables, and an upper-case
\* token that is in no category list
BranchFragments ==
  {
    <<85, 83, 68, 84>>,  \* "USDT"
    <<65, 112, 112, 108, 101>>,  \* "Apple"
    <<1050, 1091, 1076, 1080>>,  \* "Куди"
    <<112, 114, 105, 99, 101>>,  \* "price"
    <<105, 110, 118, 101, 115, 116>>,  \* "invest"
    <<110, 101, 119, 115>>,  \* "news"
    <<115, 101, 110, 116, 105, 109, 101, 110, 116>>,  \* "sentiment"
    <<1080, 1085, 1074, 1077, 1089, 1090, 1080, 1088, 1086, 1074, 1072, 1090, 1100>>,  \* "инвестировать"
    <<1110, 1085, 1074, 1077, 1089, 1090, 1091, 1074, 1072, 1090, 1080>>  \* "інвестувати"
  }

BranchUtterances ==
  { Join(ws) : ws \in UNION { [1..n -> BranchFragments] : n \in 0..MaxBranchWords } }

\* the pipeline on these utterances
InitBranch ==
  /\ pc = "start"
  /\ user_input \in BranchUtterances
  /\ entity_info = EntityInfo(FALSE, None, None, 0)
  /\ ei_from = "nobody"
  /\ calls = <<>>
  /\ action_plan = NoPlan
  /\ i = 0
  /\ results = EmptyResults
  /\ attempted = <<>>
  /\ writes = <<>>
  /\ raised = "nothing"
  /\ response = <<>>
  /\ llm_reply = NoReply
  /\ call = NoCall
  /\ batch = NoBatch
  /\ agent = NoAgent
  /\ provider_call = NoProviderCall
  /\ server = NoServer

NextBranch ==
  \/ DetectEntity
  \/ SupplyEntityInfo
  \/ PlanActions
  \/ ExecuteAction
  \/ ExecuteReturn
  \/ FormatResponse

SpecBranch == InitBranch /\ [][NextBranch]_vars

(***************************************************************************)
(* Properties                                                              *)
(***************************************************************************)

TEXT_ScenarioA == <<1062, 1110, 1085, 1072, 32, 65, 112, 112, 108, 101>>  \* "Ціна Apple"
TEXT_ScenarioB == <<82, 97, 121, 115, 32, 116, 114, 97, 100, 101, 32, 100, 101, 97, 100, 108, 105, 110, 101>>  \* "Rays trade deadline"
TEXT_ScenarioD == <<1050, 1091, 1076, 1080, 32, 1074, 1082, 1083, 1072, 1076, 1072, 1090, 1080, 32, 1075, 1088, 1086, 1096, 1110, 63>>  \* "Куди вкладати гроші?"

\* the action types of the plan, in plan order
PlanTypes == [k \in 1..Len(action_plan.actions) |-> action_plan.actions[k].action]

\* plan_actions has returned
Planned == pc \notin {"start", "detected"}

\* detect_entity has just returned (entity_info does not change afterwards)
DetectReturned == pc = "detected" /\ ei_from = "detect_entity"

\* plan_actions has just returned (action_plan does not change afterwards)
PlanReturned == pc = "planned" /\ i = 0

\* execute_action_plan is over
Executed == pc \in {"executed", "done"} \/ raised # "nothing"

\* the condition of tools.py:524 on the EntityInfo in use
EntityPresent == entity_info.is_financial /\ entity_info.entity \notin {None, <<>>}

\* C1: whatever the collaborators do (error payloads, empty news lists,
\* exceptions of get_news, malformed sentiment replies, failed advice
\* requests), no exception leaves execute_action_plan, the actions are
\* entered one by one in plan order, and when the executor is over every
\* action of the plan has been entered, those after a failed one included.
C1_FailureIsolation ==
  /\ raised # "execute_action_plan"
  /\ Planned => /\ Len(attempted) = i
                /\ i <= Len(action_plan.actions)
                /\ \A k \in 1..i : attempted[k] = action_plan.actions[k].action
  /\ Executed => attempted = PlanTypes

\* C1: a run in which get_price came back with an error payload and the
\* two later actions were entered all the same
C1_Witness ==
  /\ pc = "executed"
  /\ "price" \in DOMAIN results.data
  /\ "error" \in DOMAIN results.data["price"]
  /\ attempted = <<"get_price", "get_news_targeted", "generate_advice">>

\* C2: in every plan plan_actions returns, for every utterance and every
\* EntityInfo, an analyze_sentiment action has a news-fetching action
\* (get_news_general or get_news_targeted) somewhere before it.
C2_SentimentAfterNews ==
  \A k \in 1..Len(action_plan.actions) :
    action_plan.actions[k].action = "analyze_sentiment"
      => \E j \in 1..(k - 1) :
           action_plan.actions[j].action \in {"get_news_general", "get_news_targeted"}

\* C2: a plan with an analyze_sentiment action
C2_Witness ==
  /\ pc = "planned"
  /\ \E k \in 1..Len(action_plan.actions) :
       action_plan.actions[k].action = "analyze_sentiment"

\* C3: when the lower-cased utterance contains a keyword of
\* NON_FINANCIAL_KEYWORDS, detect_entity returns is_financial = false,
\* entity and entity_type null, confidence 0.8, and has sent no request to
\* the model service, whatever else the utterance contains.
C3_BlocklistWins ==
  (DetectReturned /\ AnyWordIn(NON_FINANCIAL_KEYWORDS, lower(user_input)))
    => /\ entity_info = [is_financial |-> FALSE, entity |-> None,
                         entity_type |-> None, confidence |-> 80]
       /\ calls = <<>>

\* C3: detect_entity has answered for an utterance that holds a blocklist
\* keyword and an alias of a ticker as well
C3_Witness ==
  /\ DetectReturned
  /\ AnyWordIn(NON_FINANCIAL_KEYWORDS, lower(user_input))
  /\ AliasMatches(lower(user_input)) # {}
  /\ ~entity_info.is_financial

\* the singular labels of the categories of ASSET_CATEGORIES, in its order
CATEGORY_LABELS == <<STR_stock, STR_crypto, STR_forex>>

\* label is the label of the category of ASSET_CATEGORIES that lists symbol
InCategoryLabelled(symbol, label) ==
  \E c \in 1..Len(ASSET_CATEGORIES) :
    InList(symbol, ASSET_CATEGORIES[c][2]) /\ label = CATEGORY_LABELS[c]

\* C4 as stated: for every key of POPULAR_TICKERS that the lower-cased
\* utterance contains, detect_entity returns is_financial = true, the symbol
\* mapped to that key, and the category that lists the symbol.
C4_AnyAliasResolves ==
  DetectReturned
    => \A k \in 1..Len(POPULAR_TICKERS) :
         Contains(POPULAR_TICKERS[k][1], lower(user_input))
           => /\ entity_info.is_financial
              /\ entity_info.entity = POPULAR_TICKERS[k][2]
              /\ InCategoryLabelled(POPULAR_TICKERS[k][2], entity_info.entity_type)

\* C4 amended: when the lower-cased utterance contains no keyword of
\* NON_FINANCIAL_KEYWORDS and contains a key of POPULAR_TICKERS,
\* detect_entity returns is_financial = true, the symbol mapped to the first
\* such key in dictionary order, and the category that lists that symbol.
C4_FirstAliasResolves ==
  (/\ DetectReturned
   /\ ~AnyWordIn(NON_FINANCIAL_KEYWORDS, lower(user_input)))
    => \A k \in 1..Len(POPULAR_TICKERS) :
         (/\ Contains(POPULAR_TICKERS[k][1], lower(user_input))
          /\ \A j \in 1..(k - 1) : ~Contains(POPULAR_TICKERS[j][1], lower(user_input)))
           => /\ entity_info.is_financial
              /\ entity_info.entity = POPULAR_TICKERS[k][2]
              /\ InCategoryLabelled(POPULAR_TICKERS[k][2], entity_info.entity_type)

\* C4: detect_entity has answered for an utterance without blocklist
\* keyword that holds aliases of two different symbols
C4_Witness ==
  /\ DetectReturned
  /\ ~AnyWordIn(NON_FINANCIAL_KEYWORDS, lower(user_input))
  /\ \E j, k \in AliasMatches(lower(user_input)) :
       /\ POPULAR_TICKERS[j][2] # POPULAR_TICKERS[k][2]
       /\ entity_info.entity = POPULAR_TICKERS[j][2]
  /\ entity_info.is_financial

\* C5 as stated: in every EntityInfo detect_entity returns, entity is
\* non-null if and only if is_financial is true.
C5_EntityIffFinancial ==
  DetectReturned
    => ((entity_info.entity # None) <=> entity_info.is_financial)

\* C6: during one run of execute_action_plan on a plan of plan_actions no
\* key of the result bag is assigned twice, by the same or by another
\* action, and the bag holds exactly the keys that were assigned.
C6_KeysWrittenOnce ==
  /\ \A a, b \in 1..Len(writes) : writes[a][1] = writes[b][1] => a = b
  /\ DOMAIN results.data = { writes[k][1] : k \in 1..Len(writes) }
  /\ \A k \in 1..Len(writes) :
       writes[k][1] \in {"price", "targeted_news", "general_news", "sentiment", "advice"}

\* C6: a finished run that assigned three keys
C6_Witness ==
  /\ pc = "executed"
  /\ Len(writes) = 3

\* C8 as stated: for an EntityInfo with is_financial = false the formatter
\* returns the fixed out-of-domain clarification, whatever the utterance and
\* the result bag; "Rays trade deadline" is answered with it.
C8_OutOfDomainReply ==
  /\ (pc = "done" /\ ~entity_info.is_financial) => response = OUT_OF_DOMAIN_MESSAGE
  /\ (pc = "done" /\ ei_from = "detect_entity" /\ user_input = TEXT_ScenarioB) =>
       /\ ~entity_info.is_financial
       /\ action_plan.actions = <<>>
       /\ response = OUT_OF_DOMAIN_MESSAGE

\* C9: with an entity present the first matching keyword group, in the
\* order price, investment, situational, alone decides the plan: price words
\* give exactly [get_price(entity)], else investment words give get_price,
\* get_news_targeted, generate_advice, else (situational words or none)
\* get_price, get_news_targeted; "Ціна Apple" resolves to AAPL / stock and
\* gets [get_price(AAPL)].
C9_EntityPlanPriority ==
  /\ (PlanReturned /\ EntityPresent) =>
       IF AnyWordIn(PLAN_PRICE_WORDS, lower(user_input))
       THEN action_plan.actions =
              << [action |-> "get_price", params |-> [symbol |-> entity_info.entity]] >>
       ELSE /\ action_plan.actions[1] =
                 [action |-> "get_price", params |-> [symbol |-> entity_info.entity]]
            /\ IF AnyWordIn(PLAN_INVEST_WORDS, lower(user_input))
               THEN PlanTypes = <<"get_price", "get_news_targeted", "generate_advice">>
               ELSE PlanTypes = <<"get_price", "get_news_targeted">>
  /\ (PlanReturned /\ ei_from = "detect_entity" /\ user_input = TEXT_ScenarioA) =>
       /\ entity_info.is_financial
       /\ entity_info.entity = AAPL
       /\ entity_info.entity_type = STR_stock
       /\ action_plan.actions = << [action |-> "get_price", params |-> [symbol |-> AAPL]] >>

\* C9: a price-only plan for an utterance that holds a price word and an
\* investment word
C9_Witness ==
  /\ pc = "planned"
  /\ EntityPresent
  /\ AnyWordIn(PLAN_PRICE_WORDS, lower(user_input))
  /\ AnyWordIn(PLAN_INVEST_WORDS, lower(user_input))
  /\ PlanTypes = <<"get_price">>

\* C10: with no entity the plan is get_news_general, analyze_sentiment when
\* a market word is present, else these two and generate_advice on the
\* general market when an investment word is present, else empty; a plan is
\* empty only then; "Куди вкладати гроші?" without entity gets the three
\* actions.
C10_GeneralPlan ==
  /\ (PlanReturned /\ ~EntityPresent) =>
       IF AnyWordIn(PLAN_MARKET_WORDS, lower(user_input))
       THEN action_plan.actions =
              << [action |-> "get_news_general"], [action |-> "analyze_sentiment"] >>
       ELSE IF AnyWordIn(PLAN_GENERAL_INVEST_WORDS, lower(user_input))
       THEN action_plan.actions =
              << [action |-> "get_news_general"], [action |-> "analyze_sentiment"],
                 [action |-> "generate_advice",
                  params |-> [context |-> STR_general_market_analysis]] >>
       ELSE action_plan.actions = <<>>
  /\ (PlanReturned /\ action_plan.actions = <<>>) =>
       /\ ~EntityPresent
       /\ ~AnyWordIn(PLAN_MARKET_WORDS, lower(user_input))
       /\ ~AnyWordIn(PLAN_GENERAL_INVEST_WORDS, lower(user_input))
  /\ (PlanReturned /\ ~EntityPresent /\ user_input = TEXT_ScenarioD) =>
       PlanTypes = <<"get_news_general", "analyze_sentiment", "generate_advice">>

\* C10: the three-action plan for "Куди вкладати гроші?" after detect_entity
\* found no entity
C10_Witness ==
  /\ pc = "planned"
  /\ ei_from = "detect_entity"
  /\ ~EntityPresent
  /\ user_input = TEXT_ScenarioD
  /\ Len(action_plan.actions) = 3

TEXT_ScenarioC == <<66, 105, 116, 99, 111, 105, 110, 32, 1085, 1086, 1074, 1080, 1085, 1080>>  \* "Bitcoin новини"
STR_BTC == <<66, 84, 67>>  \* "BTC"

\* the symbol with a trailing "USD" taken off, unchanged without one
StripTrailingUSD(symbol) ==
  IF EndsWith(symbol, STR_USD) THEN SubSeq(symbol, 1, Len(symbol) - 3) ELSE symbol

\* C11 as stated: the query of every get_news_targeted action of a plan is
\* the resolved symbol with only a trailing "USD" removed, a symbol that
\* does not end in "USD" being used unchanged; "Bitcoin новини" yields
\* [get_price(BTCUSD), get_news_targeted("BTC")].
C11_QueryStripsTrailingUSD ==
  /\ (PlanReturned /\ EntityPresent) =>
       \A k \in 1..Len(action_plan.actions) :
         action_plan.actions[k].action = "get_news_targeted"
           => action_plan.actions[k].params.query = StripTrailingUSD(entity_info.entity)
  /\ (PlanReturned /\ ei_from = "detect_entity" /\ user_input = TEXT_ScenarioC) =>
       action_plan.actions =
         << [action |-> "get_price", params |-> [symbol |-> BTCUSD]],
            [action |-> "get_news_targeted", params |-> [query |-> STR_BTC]] >>

\* C12: analyze_intent never raises and always returns one of the five
\* labels: the model's output trimmed and lower-cased if that is one of
\* them, fallback for any other output, and fallback when the retries are
\* exhausted or another exception occurs.
C12_IntentIsClosed ==
  (call.fn = "analyze_intent" /\ call.state = "done") =>
    /\ ~call.exc
    /\ InList(call.ret, valid_intents)
    /\ IF call.content # None /\ InList(lower(strip(call.content)), valid_intents)
       THEN call.ret = lower(strip(call.content))
       ELSE call.ret = STR_fallback
    /\ (call.content = None) => (call.errors # <<>> /\ call.ret = STR_fallback)

\* C12: analyze_intent answered fallback after three requests that failed
\* with retried exceptions
C12_Witness ==
  /\ call.fn = "analyze_intent"
  /\ call.state = "done"
  /\ call.tries = 3
  /\ Len(call.errors) = 3
  /\ call.ret = STR_fallback

\* a part of a response that carries a collaborator's error message: the
\* error text of a price payload, or the error string
\* generate_investment_advice returned in place of advice
IsErrorPart(part) ==
  \/ part[1] = "could not get the price for"
  \/ part[1] = "advice" /\ part[2] = "advice generation failed: error text"

\* C13 as stated: for every utterance, entity_info and result bag of
\* execute_action_plan, no part of the text format_intelligent_response
\* returns carries a collaborator's error message; an error-tagged or
\* missing key only leaves its section out.
C13_NoErrorTextInResponse ==
  pc = "done" => \A k \in 1..Len(response) : ~IsErrorPart(response[k])

\* the response has a part with this label
HasPart(label) == \E k \in 1..Len(response) : response[k][1] = label

\* the response has a part with this label and this content
HasPartWith(label, x) ==
  \E k \in 1..Len(response) : response[k][1] = label /\ response[k][2] = x

\* the run was for an asset, its get_price action failed and its plan holds
\* further actions
PriceFailedInLongerPlan ==
  /\ EntityPresent
  /\ Len(action_plan.actions) >= 2
  /\ "price" \in DOMAIN results.data => HasError(results.data["price"])

\* C14 as stated: when get_price fails in a plan that also fetches news or
\* advice, the price key is absent or an error payload and the response
\* holds the news section and the advice section for every such action that
\* succeeded.
C14_NewsAndAdviceSectionsKept ==
  (pc = "done" /\ PriceFailedInLongerPlan) =>
    /\ "targeted_news" \in DOMAIN results.data =>
         HasPart("latest news") \/ HasPart("latest news title")
           \/ HasPart("no current news found")
    /\ "advice" \in DOMAIN results.data => HasPartWith("advice", results.data["advice"])

\* C14, amended: when get_price fails in a plan with further actions, the
\* price key holds an error payload, every further action is still run, the
\* response has no price line, and it holds what its template renders from
\* the other keys: the advice in the investment template, the numbered
\* headlines (or the no-news sentence) in the news template, the first
\* headline in the general asset template.
C14_TemplateSectionsKept ==
  (pc = "done" /\ PriceFailedInLongerPlan) =>
    LET data == results.data
        user_lower == lower(user_input)
        news == Get(data, "targeted_news", <<>>)
    IN
    /\ "price" \in DOMAIN data
    /\ attempted = PlanTypes
    /\ ~HasPart("current price")
    /\ IF AnyWordIn(FMT_PRICE_WORDS, user_lower) THEN TRUE
       ELSE IF AnyWordIn(FMT_INVEST_WORDS, user_lower)
       THEN "advice" \in DOMAIN data => HasPartWith("advice", data["advice"])
       ELSE IF AnyWordIn(FMT_SITUATION_WORDS, user_lower)
       THEN IF news # <<>>
            THEN /\ HasPartWith("latest news", Len(news))
                 /\ \A k \in 1..Len(FirstN(news, 3)) : HasPartWith("news title", news[k].title)
            ELSE HasPart("no current news found")
       ELSE news # <<>> => HasPartWith("latest news title", news[1].title)

\* C14: a finished run whose price request failed while news were found,
\* answered with the news template
C14_Witness ==
  /\ pc = "done"
  /\ PriceFailedInLongerPlan
  /\ HasError(results.data["price"])
  /\ Len(results.data["targeted_news"]) = 2
  /\ HasPart("latest news")

\* format_intelligent_response takes the investment branch for an asset
\* (main.py:386-387) or the general-investment branch (main.py:401-402)
InvestmentBranch ==
  LET user_lower == lower(user_input) IN
  IF EntityPresent
  THEN /\ ~AnyWordIn(FMT_PRICE_WORDS, user_lower)
       /\ AnyWordIn(FMT_INVEST_WORDS, user_lower)
  ELSE /\ ~AnyWordIn(FMT_MARKET_WORDS, user_lower)
       /\ AnyWordIn(FMT_GENERAL_INVEST_WORDS, user_lower)

\* C15 as stated: every response of the formatter's two investment-advice
\* branches ends with the appended disclaimer sentence, whatever the result
\* bag holds and whatever text the advice generator returned.
C15_DisclaimerAppended ==
  (pc = "done" /\ InvestmentBranch) =>
    /\ response # <<>>
    /\ response[Len(response)] = <<"disclaimer">>

\* the tasks blocked in the semaphore's acquire
Waiting(b) == { k \in 1..Len(b.tasks) : b.tasks[k] = "waiting" }

\* C16: during analyze_multiple_news at most 5 requests to the sentiment
\* generator are in flight at any time, for a list of any length; the
\* permits in use and the free ones add up to 5, and an item waits only
\* while all 5 permits are in use, so that it starts only when an in-flight
\* one has finished or failed.
C16_AtMostFiveInFlight ==
  batch.pc \in {"gathering", "returned"} =>
    /\ Cardinality(InFlight(batch)) <= SEMAPHORE_VALUE
    /\ Cardinality(InFlight(batch)) + batch.value = SEMAPHORE_VALUE
    /\ Waiting(batch) # {} => Cardinality(InFlight(batch)) = SEMAPHORE_VALUE
    /\ Waiting(batch) = { batch.waiters[j] : j \in 1..Len(batch.waiters) }

\* C16: five requests in flight while the sixth item waits
C16_Witness ==
  /\ batch.pc = "gathering"
  /\ Cardinality(InFlight(batch)) = SEMAPHORE_VALUE
  /\ batch.waiters = <<6>>

\* C17: analyze_multiple_news returns only when every item's request has
\* completed or failed, with one result per item in input order: a failed
\* item yields sentiment neutral with confidence 0 and every other item the
\* result of its own request.
C17_JoinsAllItems ==
  batch.pc = "returned" =>
    /\ \A k \in 1..Len(batch.tasks) : batch.tasks[k] = "done"
    /\ Len(batch.processed_results) = Len(batch.tasks)
    /\ \A k \in 1..Len(batch.tasks) :
         /\ batch.results[k] = "exception" =>
              /\ batch.processed_results[k].sentiment = "neutral"
              /\ batch.processed_results[k].confidence = 0
         /\ batch.results[k] = "bullish" =>
              /\ batch.processed_results[k].sentiment = "bullish"
              /\ batch.processed_results[k].confidence = 80

\* C17: a returned batch of six items whose first request failed and whose
\* last one succeeded
C17_Witness ==
  /\ batch.pc = "returned"
  /\ Len(batch.tasks) = 6
  /\ batch.results[1] = "exception"
  /\ batch.results[6] = "bullish"
  /\ batch.processed_results[6].sentiment = "bullish"

\* C18 as stated: every call into the text-generation service makes at most
\* 3 requests, and a request that fails with a transient failure (API
\* error, rate limit, timeout) is retried: the call gives up with its
\* fallback or error value on such a failure only after the third request.
C18_RetriedUpToThreeTimes ==
  /\ call.tries <= 3
  /\ (/\ call.state = "done"
      /\ call.errors # <<>>
      /\ call.errors[Len(call.errors)] \in RetriedExceptions)
       => call.tries = 3

\* C19: run_agent never raises and always returns a ChatResponse: the fixed
\* try-again-later message, and nothing of what the agent had got so far,
\* when the invocation is not over within the 60 seconds, the fixed apology
\* when the agent raises, and the fixed prompt, without the agent being
\* invoked, for an empty utterance.
C19_AlwaysAnswers ==
  /\ ~agent.raised
  /\ agent.pc = "returned" =>
       /\ agent.ret.role = "assistant"
       /\ agent.ended = "timeout" => agent.ret.content = TRY_AGAIN_LATER
       /\ agent.ended = "exception" => agent.ret.content = ANALYSIS_ERROR
       /\ agent.user_input = "" <=> agent.ended = "empty input"
       /\ agent.ended = "empty input" =>
            /\ agent.ret.content = PLEASE_WRITE
            /\ ~agent.invoked

\* C19: the 60 seconds ran out after the agent had finished three iterations
C19_Witness ==
  /\ agent.pc = "returned"
  /\ agent.ended = "timeout"
  /\ agent.steps = 3
  /\ agent.ret.content = TRY_AGAIN_LATER

\* the step of detect_entity that decides for a text, by the claimed
\* precedence: blocklist, alias dictionary, uppercase token, LLM
DecidingStep(text) ==
  IF AnyWordIn(NON_FINANCIAL_KEYWORDS, lower(text)) THEN "blocklist"
  ELSE IF AliasMatches(lower(text)) # {} THEN "dictionary"
  ELSE IF TickerMatches(text) # {} THEN "pattern"
  ELSE "llm"

\* C20: detect_entity decides by the first of its four steps that applies:
\* a blocklist keyword gives not-financial with confidence 0.8 whatever
\* aliases and uppercase tokens the text holds, else an alias gives its
\* symbol with confidence 0.9 whatever uppercase tokens there are, else an
\* uppercase 3-5 letter token gives itself with confidence 0.7; the model
\* service is asked, once, exactly when none of the three applies.
C20_StrictPrecedence ==
  DetectReturned =>
    LET step == DecidingStep(user_input) IN
    /\ step = "blocklist" =>
         /\ ~entity_info.is_financial
         /\ entity_info.entity = None
         /\ entity_info.confidence = 80
    /\ step = "dictionary" =>
         /\ entity_info.is_financial
         /\ \E k \in AliasMatches(lower(user_input)) :
              entity_info.entity = POPULAR_TICKERS[k][2]
         /\ entity_info.confidence = 90
    /\ step = "pattern" =>
         /\ entity_info.is_financial
         /\ entity_info.entity = FirstTicker(user_input)
         /\ entity_info.confidence = 70
    /\ calls = IF step = "llm" THEN << <<"openai_entity", user_input>> >> ELSE <<>>

\* C20: a text with an alias and an uppercase token, decided by the alias
C20_Witness ==
  /\ DetectReturned
  /\ DecidingStep(user_input) = "dictionary"
  /\ TickerMatches(user_input) # {}
  /\ entity_info.confidence = 90
  /\ entity_info.entity # FirstTicker(user_input)

\* C21: when detect_entity reaches its LLM step and the request fails after
\* its retries, or the reply is not JSON, detect_entity returns
\* {is_financial: false, entity: null, entity_type: null, confidence: 0.0};
\* no exception leaves detect_entity.
C21_LLMFailureDegrades ==
  /\ raised # "detect_entity"
  /\ (DetectReturned /\ llm_reply.kind \in {"failure", "unparseable"}) =>
       entity_info = [is_financial |-> FALSE, entity |-> None,
                      entity_type |-> None, confidence |-> 0]

\* C21: detect_entity has returned after a reply that was not JSON
C21_Witness ==
  /\ DetectReturned
  /\ llm_reply.kind = "unparseable"
  /\ calls = << <<"openai_entity", user_input>> >>
  /\ entity_info.confidence = 0

\* C22 as stated: every element of the list under the sentiment key is an
\* object with the fields sentiment, explanation and confidence whose
\* sentiment is bullish, bearish or neutral; a reply that is unparseable or
\* of another schema has been replaced by the neutral default.
C22_SentimentEntriesWellFormed ==
  "sentiment" \in DOMAIN results.data =>
    \A k \in 1..Len(results.data["sentiment"]) :
      LET entry == results.data["sentiment"][k] IN
      /\ DOMAIN entry = {"sentiment", "explanation", "confidence"}
      /\ entry.sentiment \in {"bullish", "bearish", "neutral"}

\* the step in which execute_action_plan carries out an analyze_sentiment action
SentimentStep ==
  /\ pc = "planned"
  /\ i < Len(action_plan.actions)
  /\ action_plan.actions[i + 1].action = "analyze_sentiment"
  /\ i' = i + 1

\* the requests to the sentiment generator made in the step
SentimentRequests == SubSeq(calls', Len(calls) + 1, Len(calls'))

\* the requests for the first three items of a news list
RequestsFor(news) ==
  [k \in 1..Len(FirstN(news, 3)) |-> <<"analyze_market_sentiment", news[k].full_text>>]

PRICE_PROVIDERS == {"get_stock_price", "get_crypto_price", "get_forex_price"}

\* the price requests made so far: <<provider function, symbol>>
PriceCalls == {k \in 1..Len(calls) : calls[k][1] \in PRICE_PROVIDERS}

\* the dispatch of get_price with "ends in USD" as the crypto guess
ProviderBySuffix(symbol) ==
  IF InList(symbol, Category(STR_stocks)) THEN "get_stock_price"
  ELSE IF InList(symbol, Category(STR_crypto)) THEN "get_crypto_price"
  ELSE IF InList(symbol, Category(STR_forex)) THEN "get_forex_price"
  ELSE IF EndsWith(symbol, STR_USD) /\ Len(symbol) <= 7 THEN "get_crypto_price"
  ELSE IF Len(symbol) = 6 /\ isupper(symbol) THEN "get_forex_price"
  ELSE "get_stock_price"

\* C24 as stated: every price request went to the provider of the symbol's
\* category list, or, for a symbol in no list, to the crypto provider iff the
\* symbol ends in "USD" and has at most 7 characters, else to the forex
\* provider iff it has 6 characters, all upper-case, else to the stock provider.
C24_DispatchBySuffix ==
  \A k \in PriceCalls : calls[k][1] = ProviderBySuffix(calls[k][2])

\* the action types of the plan that fetches the data of a formatter branch
PlanOfBranch(branch) ==
  IF branch = "price" THEN <<"get_price">>
  ELSE IF branch = "investment" THEN <<"get_price", "get_news_targeted", "generate_advice">>
  ELSE IF branch \in {"news", "general_asset"} THEN <<"get_price", "get_news_targeted">>
  ELSE IF branch = "market_overview" THEN <<"get_news_general", "analyze_sentiment">>
  ELSE IF branch = "general_investment"
  THEN <<"get_news_general", "analyze_sentiment", "generate_advice">>
  ELSE <<>>

\* C25 as stated: for every utterance and entity_info the branch of
\* format_intelligent_response is the one plan_actions chose: the plan that
\* was run is the plan of the formatter's branch, and the fallback text is
\* returned for an empty plan only.
C25_FormatterMirrorsPlanner ==
  pc = "done" =>
    /\ PlanTypes = PlanOfBranch(FormatBranch(user_input, entity_info))
    /\ response = DEFAULT_RESPONSE => action_plan.actions = <<>>

\* C28: a provider function whose credential is absent returns without
\* having sent a request, an error payload from a price function and an empty
\* list from a news function, and no provider function raises, whatever the
\* credentials and the answer are.
C28_MissingKeyDetectedFirst ==
  /\ ~provider_call.raised
  /\ (provider_call.pc \in {"waiting", "returned"}
      /\ KeyOf(provider_call.fn) \notin provider_call.environ) =>
       /\ provider_call.pc = "returned"
       /\ provider_call.sent = <<>>
       /\ provider_call.ret =
            IF provider_call.fn \in PRICE_FUNCTIONS
            THEN Payload("error", <<>>) ELSE Payload("news", <<>>)
  /\ provider_call.pc = "returned" =>
       provider_call.ret.kind = IF provider_call.fn \in PRICE_FUNCTIONS
                                THEN IF provider_call.answer.kind = "body"
                                        /\ provider_call.answer.n > 0
                                     THEN "price" ELSE "error"
                                ELSE "news"

\* C28: get_forex_price has returned its error payload with FINAGE_API_KEY
\* unset and the two other credentials set
C28_Witness ==
  /\ provider_call.fn = "get_forex_price"
  /\ provider_call.environ = {"TWELVE_DATA_API_KEY", "NEWSDATA_API_KEY"}
  /\ provider_call.pc = "returned"
  /\ provider_call.sent = <<>>
  /\ provider_call.ret.kind = "error"

\* the news lists the get_news_general and get_news_targeted actions wrote
NewsKeys == {"general_news", "targeted_news"} \cap DOMAIN results.data

\* C26 as stated: the lists that get_news_general and get_news_targeted put
\* in the bag hold at most 5 items, and no failure of a news provider makes
\* execute_action_plan raise.
C26_AtMostFiveNewsItems ==
  /\ raised # "execute_action_plan"
  /\ \A key \in NewsKeys : Len(results.data[key]) <= 5

\* the request whose entry news_cache holds
LastWriter == server.writers[Len(server.writers)]

\* C27: a get_news request that was served from the cache called no fetcher
\* and got an entry written less than CACHE_DURATION seconds before it; every
\* other request called the two fetchers and, once it returned, had replaced
\* the cache; and after any interleaving news_cache holds the list and the
\* timestamp of one request, the last one that wrote.
C27_CacheServedWhileFresh ==
  /\ \A r \in DOMAIN server.reqs :
       LET req == server.reqs[r] IN
       /\ (req.pc = "returned" /\ req.served) =>
            /\ req.called = <<>>
            /\ req.entry_written_at > 0
            /\ req.current_time - req.entry_written_at < CACHE_DURATION
            /\ req.ret # <<>>
       /\ (req.pc = "returned" /\ ~req.served) =>
            /\ req.called = FETCHERS
            /\ \E k \in DOMAIN server.writers : server.writers[k] = r
       /\ req.pc = "fetching" => req.called = FETCHERS
  /\ server.writers = <<>> => server.news_cache = [data |-> <<>>, timestamp |-> 0]
  /\ server.writers # <<>> =>
       /\ server.news_cache.data = server.reqs[LastWriter].ret
       /\ server.news_cache.timestamp = server.reqs[LastWriter].current_time

\* C27: two refreshes overlapped, and the cache holds the list of the one
\* that wrote last, which is not the list of the other
C27_Witness ==
  /\ Len(server.writers) = 2
  /\ server.reqs[server.writers[1]].current_time <= server.reqs[LastWriter].current_time
  /\ server.reqs[LastWriter].current_time <= server.written_at
  /\ server.news_cache.data = server.reqs[LastWriter].ret
  /\ server.news_cache.data # server.reqs[server.writers[1]].ret
  /\ Len(server.news_cache.data) = 6

\* C30 as stated: across any interleaving of get_news requests the timestamp
\* stored in news_cache never decreases.
C30_TimestampNeverDecreases ==
  [][server'.news_cache.timestamp >= server.news_cache.timestamp]_vars

\* C30, amended: a refresh stamps the cache with the clock reading its request
\* took on arrival, which is never later than the clock at the write; the
\* stored timestamp decreases only when the writing request arrived before
\* the request whose entry it overwrites, and before that entry was written.
C30_StampIsArrivalTime ==
  [][server'.writers # server.writers =>
       \E r \in DOMAIN server.reqs :
         /\ server.reqs[r].pc = "fetching"
         /\ server'.reqs[r].pc = "returned"
         /\ server'.news_cache.timestamp = server.reqs[r].current_time
         /\ server'.news_cache.timestamp <= server.now
         /\ server'.news_cache.timestamp < server.news_cache.timestamp =>
              /\ server.writers # <<>>
              /\ server.reqs[r].current_time < server.reqs[LastWriter].current_time
              /\ server.reqs[r].current_time <= server.written_at]_vars

\* C30: the cache holds a timestamp lower than the one it held before
C30_Witness ==
  /\ Len(server.writers) = 2
  /\ server.reqs[LastWriter].current_time < server.reqs[server.writers[1]].current_time
  /\ server.news_cache.timestamp = server.reqs[LastWriter].current_time

STR_USDT == <<85, 83, 68, 84>>  \* "USDT"

\* detect_entity answered from its dictionary or its pattern step
ResolvedLocally ==
  /\ ei_from = "detect_entity"
  /\ llm_reply = NoReply
  /\ EntityPresent

\* the provider function of an asset class
ProviderOfType(entity_type) ==
  IF entity_type = STR_crypto THEN "get_crypto_price"
  ELSE IF entity_type = STR_forex THEN "get_forex_price"
  ELSE "get_stock_price"

\* C29 as stated: for an entity detect_entity resolved through its dictionary
\* or its pattern step, every price request of the run went to the provider
\* of the asset class reported in entity_type.
C29_ProviderMatchesEntityType ==
  ResolvedLocally =>
    \A k \in PriceCalls :
      calls[k][2] = entity_info.entity =>
        calls[k][1] = ProviderOfType(entity_info.entity_type)

====
